---- MODULE Spec2Model ----
(***************************************************************************)
(* Model of the inbound messaging Lambda, src/messaging/InboundHandlerV2.mjs *)
(* together with the three services it calls: the DynamoDB session table,  *)
(* Amazon Connect (StartChatContact, StartContactStreaming) and the        *)
(* Connect Participant service (CreateParticipantConnection, SendMessage). *)
(*                                                                         *)
(* Every `await` of the handler is one step of an invocation: the code     *)
(* before the first await (parsing and validation) is the step Invoke, and *)
(* each external call is one step that either succeeds or throws.          *)
(* Invocations of the Lambda run concurrently and share only the table and *)
(* the services.                                                           *)
(*                                                                         *)
(* The second part models the Salesforce messaging Lambda of               *)
(* src/unnamed/part_003 (lines 1-412) the same way, with its DynamoDB      *)
(* table (token cache and conversation records) and the Salesforce         *)
(* messaging API; its specification is SalesforceSpec.                     *)
(***************************************************************************)
EXTENDS Naturals, Sequences, FiniteSets

\* Contacts the Connect instance creates in one run of the model.
MaxContacts == 2

\* Lambda execution environments: two invocations can be in flight at once.
Procs == {1, 2}

\* Customer phone numbers (spec scenario A uses +640000001).
Numbers == {"+640000001", "+640000002"}

\* The runs explored: two concurrent invocations serving one customer, and
\* one invocation at a time serving two customers.
Deployments ==
    {[environments |-> Procs, customers |-> {"+640000001"}],
     [environments |-> {1}, customers |-> Numbers]}

\* JavaScript's undefined, for a field the request body does not carry.
Undefined == "undefined"
\* dbResponse.Item of a GetItem that finds nothing.
NoItem == [originatingNumber |-> "undefined", ContactId |-> 0, ConnectionToken |-> 0]
\* previousContactId = null; contact ids of the service start at 1.
\* No resumed invocation ended last.
NoRun == [originatingNumber |-> "undefined", Item |-> NoItem]
NoContact == 0
NoToken == 0

VARIABLES
    environments,       \* the execution environments that take events
    customers,          \* the numbers that messages come from
    table,              \* DynamoDB: the items of the session table
    contacts,           \* Connect: contacts[c] is the contact with ContactId c
    connections,        \* Participant service: connections[t] is the contact of ConnectionToken t
    pc,                 \* per invocation: the await it stands at
    originatingNumber, firstMessage,
    dbResponse, previousContactId, storedToken,
    ContactId, ParticipantToken, newToken,
    result,             \* what the invocation returned
    calls,              \* per invocation: the external calls it made, in order
    previousRun,        \* history: the resumed invocation that ended last, if it was the last to end
    \* src/unnamed/part_003, the Salesforce messaging handler (lines 1-412)
    cache,              \* DynamoDB: the items of its table, keyed by mobileNumber
    issued,             \* Salesforce: the number of access tokens issued
    expired,            \* Salesforce: the tokens 1 .. expired are no longer accepted
    conversations,      \* Salesforce: conversations[c] is the conversation with id c
    saving,             \* the token-cache writes started and not yet settled
    invocations,        \* the execution environments that take its events
    at,                 \* per invocation: the await it stands at
    mobileNumber, text, serviceNumber,
    accessToken, conversationId,
    response,           \* what the invocation returned
    requests            \* per invocation: the external calls it made, in order

\* src/StartTaskContactV1/index.mjs
VARIABLES
    configured,         \* INSTANCE_ID and CONTACT_FLOW_ID are both set
    taskContacts,       \* Connect: the number of task contacts started
    taskAt,             \* the await the invocation stands at
    eventBody,          \* event.body of the invocation
    attributes,         \* event.attributes of the invocation
    parsedBody,
    commands,           \* the StartTaskContactCommands the invocation sent, in order
    returned            \* what the invocation returned

task == <<configured, taskContacts, taskAt, eventBody, attributes, parsedBody, commands, returned>>
\* src/agentforce/CreateAgentWorkV1/index.mjs
VARIABLES
    agentWorks,         \* Salesforce: the AgentWork records created, in order
    openTasks,          \* Connect: the task contacts that are not stopped
    workAt,             \* the await the invocation stands at
    contactData,            \* the fields the invocation read from event.Details
    granted,            \* the invocation has accessToken and instanceUrl
    queryResults, agentWorkResponse,
    attempts,           \* the external calls the invocation made, in order
    answer              \* what the invocation returned

agentwork == <<agentWorks, openTasks, workAt, contactData, granted, queryResults, agentWorkResponse,
               attempts, answer>>
\* src/unnamed/part_000, the custom text message bubble
VARIABLES
    showCtas, ctaGroups,
    buttons,            \* this.buttons, which only the catch of textContent sets
    conversationEntry,  \* the entry the parent component has set
    rendered,           \* the value textContent returned last
    posted,             \* the buttonTypes posted to window.parent, in order
    clicks              \* history: the click events handled, in order

bubble == <<showCtas, ctaGroups, buttons, conversationEntry, rendered, posted, clicks>>
\* src/unnamed/part_005, fetchFullTranscript of the transcript exporter
VARIABLES
    transcriptAt,       \* where the call stands: in the loop, returned or thrown
    nextUrl, pageCount, allEntries,
    served,             \* history: the pages Salesforce answered with, in order
    fullTranscript      \* what the call returned

transcript == <<transcriptAt, nextUrl, pageCount, allEntries, served, fullTranscript>>
\* src/unnamed/part_002, the outbound SMS relay (lines 155-294)
VARIABLES
    delivered,          \* the SMS provider: the messages it accepted, in order
    relayAt,            \* the await the invocation stands at
    snsEvent,           \* the event of the invocation
    customerNumber,     \* what getOriginatingNumber returned
    smsRequests,        \* the POST requests the invocation issued, in order
    relayed             \* what the invocation returned

relay == <<delivered, relayAt, snsEvent, customerNumber, smsRequests, relayed>>
\* The state of the handlers other than InboundHandlerV2 and the Salesforce
\* messaging handler.
others == <<task, agentwork, bubble, transcript, relay>>

\* The state of the Salesforce messaging handler and of its collaborators.
salesforce == <<cache, issued, expired, conversations, saving, invocations, at, mobileNumber, text,
                serviceNumber, accessToken, conversationId, response, requests, others>>
shared == <<environments, customers, previousRun, salesforce, table, contacts, connections>>
locals == <<originatingNumber, firstMessage, dbResponse, previousContactId,
            storedToken, ContactId, ParticipantToken, newToken>>
vars == <<environments, customers, previousRun, salesforce, table, contacts, connections, pc, originatingNumber, firstMessage,
          dbResponse, previousContactId, storedToken, ContactId,
          ParticipantToken, newToken, result, calls>>

----------------------------------------------------------------------------
\* Values

\* !x of JavaScript for the values a body field takes here.
Falsy(x) == x \in {Undefined, ""}

Pending == [statusCode |-> 0, body |-> "pending"]
\* JSON.parse(body) throws outside the try block: the handler rejects.
Thrown == [statusCode |-> 0, body |-> "SyntaxError"]
MissingData == [statusCode |-> 400, body |-> "Missing data"]
\* Created with the status shortened to "Created".
Created_Short(c) == [statusCode |-> 200, body |-> [status |-> "Created", contactId |-> c]]

Resumed(id) == [statusCode |-> 200, body |-> [status |-> "Resumed", messageId |-> id]]
Created(c) == [statusCode |-> 200, body |-> [status |-> "Created entry in DDB", contactId |-> c]]
CriticalError(op) == [statusCode |-> 500, body |-> [error |-> op]]

\* The requests the handler can receive: a path and a body.
FirstMessageValues == {Undefined, "0", "1"}
NumberValues == customers \cup {Undefined}
Events ==
    [rawPath : {"/salesforce"}, json : {TRUE}, firstMessage : FirstMessageValues,
     originatingNumber : NumberValues, destinationNumber : {Undefined}]
    \cup
    [rawPath : {"/modica"}, json : {TRUE}, firstMessage : {Undefined},
     originatingNumber : NumberValues, destinationNumber : {Undefined, "shortcode"}]
    \cup
    [rawPath : {"/other", "/salesforce"}, json : {TRUE, FALSE}, firstMessage : {Undefined},
     originatingNumber : {Undefined}, destinationNumber : {Undefined}]

\* Rejected asking for both fields to be missing.
Rejected_And(e) ==
    IF e.rawPath = "/salesforce"
    THEN Falsy(e.originatingNumber) /\ Falsy(e.firstMessage)
    ELSE IF e.rawPath = "/modica"
    THEN Falsy(e.originatingNumber) /\ Falsy(e.destinationNumber)
    ELSE TRUE

\* Lines 35-65: the 400 answers.
Rejected(e) ==
    IF e.rawPath = "/salesforce"
    THEN Falsy(e.originatingNumber) \/ Falsy(e.firstMessage)
    ELSE IF e.rawPath = "/modica"
    THEN Falsy(e.originatingNumber) \/ Falsy(e.destinationNumber)
    ELSE TRUE

\* Lines 69-72.
DefaultFirstMessage(fm) == IF Falsy(fm) THEN "0" ELSE fm

\* One external call of an invocation: the command, its input, whether it
\* resolved, and the name of the error it threw otherwise.
Call(op, arg, err) == [op |-> op, arg |-> arg, ok |-> (err = ""), err |-> err]

\* GetItem by primary key (lines 78-82).
GetItem(n) ==
    IF \E r \in table : r.originatingNumber = n
    THEN CHOOSE r \in table : r.originatingNumber = n
    ELSE NoItem

\* PutItem that adds the item beside the one of the same key.
PutItem_Append(item) == table \cup {item}

\* PutItem replaces the item that has the same primary key (lines 184-192).
PutItem(item) ==
    {r \in table : r.originatingNumber # item.originatingNumber} \cup {item}

\* A connection token works while its contact is alive.
Alive(c) == c \in 1 .. Len(contacts) /\ contacts[c].alive
TokenValid(t) == t \in 1 .. Len(connections) /\ Alive(connections[t])

----------------------------------------------------------------------------
\* The Salesforce messaging handler before any event, with execution
\* environments E: an empty table, no token issued, no conversation.
NoAccessToken == 0
NoConversation == 0
SalesforceIdle(E) ==
    /\ cache = {}
    /\ issued = 0
    /\ expired = 0
    /\ conversations = <<>>
    /\ saving = {}
    /\ invocations = E
    /\ at = [p \in Procs |-> "idle"]
    /\ mobileNumber = [p \in Procs |-> Undefined]
    /\ text = [p \in Procs |-> Undefined]
    /\ serviceNumber = [p \in Procs |-> Undefined]
    /\ accessToken = [p \in Procs |-> NoAccessToken]
    /\ conversationId = [p \in Procs |-> NoConversation]
    /\ response = [p \in Procs |-> Pending]
    /\ requests = [p \in Procs |-> <<>>]

----------------------------------------------------------------------------
\* JavaScript values of an event: a string, an object with the fields the
\* handlers read, null and undefined.
JsString(t) == [type |-> "string", text |-> t]
JsObject(e, w) == [type |-> "object", eventType |-> e, WorkItemId |-> w]
JsNull == [type |-> "null"]
JsUndefined == [type |-> "undefined"]
\* A function that ended without a return statement.
ReturnsNothing == [statusCode |-> 0, body |-> "undefined"]

\* StartTaskContactV1 before any event, with the environment variables set
\* (c) or not.
TaskIdle(c) ==
    /\ configured = c
    /\ taskContacts = 0
    /\ taskAt = "idle"
    /\ eventBody = JsUndefined
    /\ attributes = JsUndefined
    /\ parsedBody = JsUndefined
    /\ commands = <<>>
    /\ returned = Pending

\* InboundHandlerV2 with no execution environment: nothing stored, no
\* contact.
InboundIdle ==
    /\ environments = {}
    /\ customers = {}
    /\ table = {}
    /\ contacts = <<>>
    /\ connections = <<>>
    /\ pc = [p \in Procs |-> "idle"]
    /\ originatingNumber = [p \in Procs |-> Undefined]
    /\ firstMessage = [p \in Procs |-> Undefined]
    /\ dbResponse = [p \in Procs |-> NoItem]
    /\ previousContactId = [p \in Procs |-> NoContact]
    /\ storedToken = [p \in Procs |-> NoToken]
    /\ ContactId = [p \in Procs |-> NoContact]
    /\ ParticipantToken = [p \in Procs |-> NoContact]
    /\ newToken = [p \in Procs |-> NoToken]
    /\ result = [p \in Procs |-> Pending]
    /\ calls = [p \in Procs |-> <<>>]
    /\ previousRun = NoRun

\* Task contacts of the Connect instance.
TaskIds == {"task-1", "task-2"}
\* The fields of event.Details that CreateAgentWorkV1 reads.
NoDetails ==
    [UserId |-> Undefined, WorkItemId |-> Undefined, PendingServiceRoutingId |-> Undefined,
     ServiceChannelId |-> Undefined, ReportingTaskId |-> Undefined]
\* CreateAgentWorkV1 before any event: no AgentWork record, every task
\* contact in progress.
AgentWorkIdle ==
    /\ agentWorks = <<>>
    /\ openTasks = TaskIds
    /\ workAt = "idle"
    /\ contactData = NoDetails
    /\ granted = FALSE
    /\ queryResults = FALSE
    /\ agentWorkResponse = FALSE
    /\ attempts = <<>>
    /\ answer = Pending

\* The message bubble as constructed (lines 13, 21): no group, no entry
\* set, nothing rendered.
NoEntry == [kind |-> "undefined"]
BubbleIdle ==
    /\ showCtas = FALSE
    /\ ctaGroups = <<>>
    /\ buttons = Undefined
    /\ conversationEntry = NoEntry
    /\ rendered = Undefined
    /\ posted = <<>>
    /\ clicks = <<>>

\* fetchFullTranscript as it enters its loop (lines 415-421).
FirstPageUrl == "/connect/conversation/c/entries?pageSize=50"
NoUrl == "null"
TranscriptIdle ==
    /\ transcriptAt = "loop"
    /\ nextUrl = FirstPageUrl
    /\ pageCount = 0
    /\ allEntries = <<>>
    /\ served = <<>>
    /\ fullTranscript = <<>>

\* The outbound SMS relay before any event.
NoSnsEvent == [kind |-> "none"]
RelayIdle ==
    /\ delivered = <<>>
    /\ relayAt = "idle"
    /\ snsEvent = NoSnsEvent
    /\ customerNumber = Undefined
    /\ smsRequests = <<>>
    /\ relayed = Pending

\* The other handlers before any event.
OthersIdle ==
    /\ TaskIdle(TRUE)
    /\ AgentWorkIdle
    /\ BubbleIdle
    /\ TranscriptIdle
    /\ RelayIdle

----------------------------------------------------------------------------
Init ==
    /\ \E d \in Deployments :
        /\ environments = d.environments
        /\ customers = d.customers
    /\ table = {}
    /\ contacts = <<>>
    /\ connections = <<>>
    /\ pc = [p \in Procs |-> "idle"]
    /\ originatingNumber = [p \in Procs |-> Undefined]
    /\ firstMessage = [p \in Procs |-> Undefined]
    /\ dbResponse = [p \in Procs |-> NoItem]
    /\ previousContactId = [p \in Procs |-> NoContact]
    /\ storedToken = [p \in Procs |-> NoToken]
    /\ ContactId = [p \in Procs |-> NoContact]
    /\ ParticipantToken = [p \in Procs |-> NoContact]
    /\ newToken = [p \in Procs |-> NoToken]
    /\ result = [p \in Procs |-> Pending]
    /\ calls = [p \in Procs |-> <<>>]
    /\ previousRun = NoRun
    /\ SalesforceIdle({})
    /\ OthersIdle

\* The invocation ends with result r, having made (or not) its last call.
Return(p, r) ==
    /\ pc' = [pc EXCEPT ![p] = "done"]
    /\ result' = [result EXCEPT ![p] = r]

Log(p, c) == calls' = [calls EXCEPT ![p] = Append(@, c)]

\* Lines 24-72: parse the request and validate it; the first await follows.
Invoke(p) ==
    /\ p \in environments
    /\ pc[p] = "idle"
    /\ \E e \in Events :
        IF ~e.json
        THEN /\ Return(p, Thrown)
             /\ UNCHANGED <<originatingNumber, firstMessage>>
        ELSE IF Rejected(e)
        THEN /\ Return(p, MissingData)
             /\ UNCHANGED <<originatingNumber, firstMessage>>
        ELSE /\ pc' = [pc EXCEPT ![p] = "GetItem"]
             /\ originatingNumber' = [originatingNumber EXCEPT ![p] = e.originatingNumber]
             /\ firstMessage' = [firstMessage EXCEPT ![p] = DefaultFirstMessage(e.firstMessage)]
             /\ UNCHANGED result
    /\ UNCHANGED <<shared, dbResponse, previousContactId, storedToken, ContactId,
                   ParticipantToken, newToken, calls>>

\* Lines 78-92: the session lookup, and the choice between reuse and creation.
GetItemOk(p) ==
    /\ pc[p] = "GetItem"
    /\ LET item == GetItem(originatingNumber[p])
           found == item # NoItem /\ item.ConnectionToken # NoToken
       IN /\ dbResponse' = [dbResponse EXCEPT ![p] = item]
          /\ storedToken' = [storedToken EXCEPT ![p] = IF found THEN item.ConnectionToken ELSE NoToken]
          /\ previousContactId' = [previousContactId EXCEPT ![p] = IF found THEN item.ContactId ELSE NoContact]
          /\ pc' = [pc EXCEPT ![p] = IF found THEN "ReuseSend" ELSE "StartChatContact"]
    /\ Log(p, Call("GetItem", originatingNumber[p], ""))
    /\ UNCHANGED <<shared, originatingNumber, firstMessage, ContactId,
                   ParticipantToken, newToken, result>>

\* Lines 196-199: any error thrown inside the try block ends the invocation.
Catch(p, op, arg, err) ==
    /\ Return(p, CriticalError(err))
    /\ Log(p, Call(op, arg, err))
    /\ UNCHANGED <<shared, locals>>

GetItemFail(p) ==
    /\ pc[p] = "GetItem"
    /\ Catch(p, "GetItem", originatingNumber[p], "DynamoDBServiceException")

\* ReuseSendOk without the return of line 102: the handler goes on to creation.
ReuseSendOk_NoReturn(p) ==
    /\ pc[p] = "ReuseSend"
    /\ TokenValid(storedToken[p])
    /\ pc' = [pc EXCEPT ![p] = "StartChatContact"]
    /\ Log(p, Call("SendMessage", storedToken[p], ""))
    /\ UNCHANGED <<shared, locals, result>>

\* ReuseSendOk that opens a fresh connection on the contact after the send and
\* stores its token in the record.
ReuseSendOk_RotatesToken(p) ==
    /\ pc[p] = "ReuseSend"
    /\ TokenValid(storedToken[p])
    /\ Len(connections) < MaxContacts + 2
    /\ connections' = Append(connections, connections[storedToken[p]])
    /\ table' = PutItem([originatingNumber |-> originatingNumber[p],
                         ContactId |-> previousContactId[p],
                         ConnectionToken |-> Len(connections) + 1])
    /\ Return(p, Resumed("Id"))
    /\ Log(p, Call("SendMessage", storedToken[p], ""))
    /\ UNCHANGED <<environments, customers, previousRun, salesforce, contacts, locals>>

\* Lines 94-102: the message goes through the stored token.
ReuseSendOk(p) ==
    /\ pc[p] = "ReuseSend"
    /\ TokenValid(storedToken[p])
    /\ Return(p, Resumed("Id"))
    /\ Log(p, Call("SendMessage", storedToken[p], ""))
    /\ UNCHANGED <<shared, locals>>

\* ReuseSendFail that also deletes the record whose token failed.
ReuseSendFail_DeletesRecord(p) ==
    /\ pc[p] = "ReuseSend"
    /\ pc' = [pc EXCEPT ![p] = "StartChatContact"]
    /\ table' = {r \in table : r.originatingNumber # originatingNumber[p]}
    /\ Log(p, Call("SendMessage", storedToken[p],
                   IF TokenValid(storedToken[p]) THEN "InternalServerException"
                                                 ELSE "AccessDeniedException"))
    /\ UNCHANGED <<environments, customers, previousRun, salesforce, contacts, connections, locals, result>>

\* Lines 104-107: whatever the send threw is swallowed; creation follows.
ReuseSendFail(p) ==
    /\ pc[p] = "ReuseSend"
    /\ pc' = [pc EXCEPT ![p] = "StartChatContact"]
    /\ Log(p, Call("SendMessage", storedToken[p],
                   IF TokenValid(storedToken[p]) THEN "InternalServerException"
                                                 ELSE "AccessDeniedException"))
    /\ UNCHANGED <<shared, locals, result>>

NoRehydration == [RehydrationType |-> "NONE", SourceContactId |-> NoContact]

\* startChatParams without the block of lines 131-137.
startChatParams_NoRehydration(p) ==
    [CustomerNumber |-> originatingNumber[p],
     FirstMessage |-> firstMessage[p],
     PersistentChat |-> NoRehydration]

\* startChatParams that asks for rehydration whatever the lookup returned.
startChatParams_AlwaysRehydrates(p) ==
    [CustomerNumber |-> originatingNumber[p],
     FirstMessage |-> firstMessage[p],
     PersistentChat |-> [RehydrationType |-> "FROM_SEGMENT",
                         SourceContactId |-> previousContactId[p]]]

\* Lines 116-137.
startChatParams(p) ==
    [CustomerNumber |-> originatingNumber[p],
     FirstMessage |-> firstMessage[p],
     PersistentChat |-> IF previousContactId[p] # NoContact
                        THEN [RehydrationType |-> "FROM_SEGMENT",
                              SourceContactId |-> previousContactId[p]]
                        ELSE NoRehydration]

\* StartChatContactOk that goes to the participant connection at once,
\* without enabling streaming.
StartChatContactOk_SkipsStreaming(p) ==
    /\ pc[p] = "StartChatContact"
    /\ Len(contacts) < MaxContacts
    /\ LET req == startChatParams(p)
           id == Len(contacts) + 1
       IN /\ contacts' = Append(contacts,
                [CustomerNumber |-> req.CustomerNumber,
                 PersistentChat |-> req.PersistentChat, alive |-> TRUE])
          /\ ContactId' = [ContactId EXCEPT ![p] = id]
          /\ ParticipantToken' = [ParticipantToken EXCEPT ![p] = id]
          /\ Log(p, Call("StartChatContact", req, ""))
    /\ pc' = [pc EXCEPT ![p] = "CreateParticipantConnection"]
    /\ UNCHANGED <<environments, customers, previousRun, salesforce, table, connections,
                   originatingNumber, firstMessage, dbResponse, previousContactId,
                   storedToken, newToken, result>>

\* Line 140-142: Connect creates the contact and answers with its id.
StartChatContactOk(p) ==
    /\ pc[p] = "StartChatContact"
    /\ Len(contacts) < MaxContacts
    /\ LET req == startChatParams(p)
           id == Len(contacts) + 1
       IN /\ contacts' = Append(contacts,
                [CustomerNumber |-> req.CustomerNumber,
                 PersistentChat |-> req.PersistentChat, alive |-> TRUE])
          /\ ContactId' = [ContactId EXCEPT ![p] = id]
          /\ ParticipantToken' = [ParticipantToken EXCEPT ![p] = id]
          /\ Log(p, Call("StartChatContact", req, ""))
    /\ pc' = [pc EXCEPT ![p] = "StartContactStreaming"]
    /\ UNCHANGED <<environments, customers, previousRun, salesforce, table, connections, originatingNumber,
                   firstMessage, dbResponse, previousContactId, storedToken, newToken,
                   result>>

StartChatContactFail(p) ==
    /\ pc[p] = "StartChatContact"
    /\ Catch(p, "StartChatContact", startChatParams(p), "ConnectServiceException")

\* Lines 145-149.
StartContactStreamingOk(p) ==
    /\ pc[p] = "StartContactStreaming"
    /\ Alive(ContactId[p])
    /\ pc' = [pc EXCEPT ![p] = "CreateParticipantConnection"]
    /\ Log(p, Call("StartContactStreaming", ContactId[p], ""))
    /\ UNCHANGED <<shared, locals, result>>

\* StartContactStreamingFail with the error caught and ignored.
StartContactStreamingFail_Ignored(p) ==
    /\ pc[p] = "StartContactStreaming"
    /\ pc' = [pc EXCEPT ![p] = "CreateParticipantConnection"]
    /\ Log(p, Call("StartContactStreaming", ContactId[p], "ConnectServiceException"))
    /\ UNCHANGED <<shared, locals, result>>

StartContactStreamingFail(p) ==
    /\ pc[p] = "StartContactStreaming"
    /\ Catch(p, "StartContactStreaming", ContactId[p], "ConnectServiceException")

\* CreateParticipantConnectionOk saving the session as soon as the token is
\* known, before the first message is sent.
CreateParticipantConnectionOk_SavesEarly(p) ==
    /\ pc[p] = "CreateParticipantConnection"
    /\ Alive(ParticipantToken[p])
    /\ connections' = Append(connections, ParticipantToken[p])
    /\ newToken' = [newToken EXCEPT ![p] = Len(connections) + 1]
    /\ table' = PutItem([originatingNumber |-> originatingNumber[p],
                         ContactId |-> ContactId[p],
                         ConnectionToken |-> Len(connections) + 1])
    /\ pc' = [pc EXCEPT ![p] = IF firstMessage[p] = "0" THEN "SendMessage" ELSE "PutItem"]
    /\ Log(p, Call("CreateParticipantConnection", ParticipantToken[p], ""))
    /\ UNCHANGED <<environments, customers, previousRun, salesforce, contacts, originatingNumber,
                   firstMessage, dbResponse, previousContactId, storedToken, ContactId,
                   ParticipantToken, result>>

\* CreateParticipantConnectionOk with the first message sent whatever the flag.
CreateParticipantConnectionOk_AlwaysSends(p) ==
    /\ pc[p] = "CreateParticipantConnection"
    /\ Alive(ParticipantToken[p])
    /\ connections' = Append(connections, ParticipantToken[p])
    /\ newToken' = [newToken EXCEPT ![p] = Len(connections) + 1]
    /\ pc' = [pc EXCEPT ![p] = "SendMessage"]
    /\ Log(p, Call("CreateParticipantConnection", ParticipantToken[p], ""))
    /\ UNCHANGED <<environments, customers, previousRun, salesforce, table, contacts, originatingNumber,
                   firstMessage, dbResponse, previousContactId, storedToken, ContactId,
                   ParticipantToken, result>>

\* Lines 154-164: the connection of the new contact, then the choice of sending.
CreateParticipantConnectionOk(p) ==
    /\ pc[p] = "CreateParticipantConnection"
    /\ Alive(ParticipantToken[p])
    /\ connections' = Append(connections, ParticipantToken[p])
    /\ newToken' = [newToken EXCEPT ![p] = Len(connections) + 1]
    /\ pc' = [pc EXCEPT ![p] = IF firstMessage[p] = "0" THEN "SendMessage" ELSE "PutItem"]
    /\ Log(p, Call("CreateParticipantConnection", ParticipantToken[p], ""))
    /\ UNCHANGED <<environments, customers, previousRun, salesforce, table, contacts, originatingNumber,
                   firstMessage, dbResponse, previousContactId, storedToken, ContactId,
                   ParticipantToken, result>>

CreateParticipantConnectionFail(p) ==
    /\ pc[p] = "CreateParticipantConnection"
    /\ Catch(p, "CreateParticipantConnection", ParticipantToken[p], "ParticipantServiceException")

\* Lines 165-171.
SendMessageOk(p) ==
    /\ pc[p] = "SendMessage"
    /\ TokenValid(newToken[p])
    /\ pc' = [pc EXCEPT ![p] = "PutItem"]
    /\ Log(p, Call("SendMessage", newToken[p], ""))
    /\ UNCHANGED <<shared, locals, result>>

\* SendMessageFail with the send tried once more.
SendMessageFail_Retry(p) ==
    /\ pc[p] = "SendMessage"
    /\ Len(calls[p]) < 8
    /\ Log(p, Call("SendMessage", newToken[p], "ParticipantServiceException"))
    /\ UNCHANGED <<shared, locals, pc, result>>

SendMessageFail(p) ==
    /\ pc[p] = "SendMessage"
    /\ Catch(p, "SendMessage", newToken[p], "ParticipantServiceException")

\* Item with the contact id read from the old item in place of the new one.
Item_PreviousContact(p) ==
    [originatingNumber |-> originatingNumber[p],
     ContactId |-> previousContactId[p],
     ConnectionToken |-> newToken[p]]

\* Lines 186-191 (the expiry attribute is left to TtlExpiry).
Item(p) ==
    [originatingNumber |-> originatingNumber[p],
     ContactId |-> ContactId[p],
     ConnectionToken |-> newToken[p]]

\* PutItemOk without the write: the answer alone.
PutItemOk_NoWrite(p) ==
    /\ pc[p] = "PutItem"
    /\ Return(p, Created(ContactId[p]))
    /\ Log(p, Call("PutItem", Item(p), ""))
    /\ UNCHANGED <<shared, locals>>

\* PutItemOk as a conditional write: it goes through only while the table
\* still holds what the lookup returned.
PutItemOk_Conditional(p) ==
    /\ pc[p] = "PutItem"
    /\ GetItem(originatingNumber[p]) = dbResponse[p]
    /\ table' = PutItem(Item(p))
    /\ Return(p, Created(ContactId[p]))
    /\ Log(p, Call("PutItem", Item(p), ""))
    /\ UNCHANGED <<environments, customers, previousRun, salesforce, contacts, connections, locals>>

\* Lines 184-194: the session write and the answer.
PutItemOk(p) ==
    /\ pc[p] = "PutItem"
    /\ table' = PutItem(Item(p))
    /\ Return(p, Created(ContactId[p]))
    /\ Log(p, Call("PutItem", Item(p), ""))
    /\ UNCHANGED <<environments, customers, previousRun, salesforce, contacts, connections, locals>>

PutItemFail(p) ==
    /\ pc[p] = "PutItem"
    /\ Catch(p, "PutItem", Item(p), "DynamoDBServiceException")

\* What is remembered of invocation p when it has answered: with one
\* execution environment, where invocations follow one another, the number and
\* the item read (lines 78-92) of an invocation that answered "Resumed" (102).
RunOf(p) ==
    IF /\ environments = {p}
       /\ result[p].statusCode = 200
       /\ result[p].body.status = "Resumed"
    THEN [originatingNumber |-> originatingNumber[p], Item |-> dbResponse[p]]
    ELSE NoRun

\* The Lambda has answered; the next event starts from fresh locals.
Finish(p) ==
    /\ pc[p] = "done"
    /\ pc' = [pc EXCEPT ![p] = "idle"]
    /\ originatingNumber' = [originatingNumber EXCEPT ![p] = Undefined]
    /\ firstMessage' = [firstMessage EXCEPT ![p] = Undefined]
    /\ dbResponse' = [dbResponse EXCEPT ![p] = NoItem]
    /\ previousContactId' = [previousContactId EXCEPT ![p] = NoContact]
    /\ storedToken' = [storedToken EXCEPT ![p] = NoToken]
    /\ ContactId' = [ContactId EXCEPT ![p] = NoContact]
    /\ ParticipantToken' = [ParticipantToken EXCEPT ![p] = NoContact]
    /\ newToken' = [newToken EXCEPT ![p] = NoToken]
    /\ result' = [result EXCEPT ![p] = Pending]
    /\ calls' = [calls EXCEPT ![p] = <<>>]
    /\ previousRun' = RunOf(p)
    /\ UNCHANGED <<environments, customers, salesforce, table, contacts, connections>>

\* The chat ends (the customer or the agent leaves, or it times out); its
\* connection tokens stop working (comment of lines 105-106).
ContactEnds(c) ==
    /\ Alive(c)
    /\ contacts' = [contacts EXCEPT ![c].alive = FALSE]
    /\ UNCHANGED <<environments, customers, previousRun, salesforce, table, connections, pc, locals, result, calls>>

\* DynamoDB removes an item whose expiryDateTime has passed (lines 177-190).
TtlExpiry(n) ==
    /\ \E r \in table : r.originatingNumber = n
    /\ table' = {r \in table : r.originatingNumber # n}
    /\ UNCHANGED <<environments, customers, previousRun, salesforce, contacts, connections, pc, locals, result, calls>>

Next ==
    \/ \E p \in Procs :
        \/ Invoke(p)
        \/ GetItemOk(p) \/ GetItemFail(p)
        \/ ReuseSendOk(p) \/ ReuseSendFail(p)
        \/ StartChatContactOk(p) \/ StartChatContactFail(p)
        \/ StartContactStreamingOk(p) \/ StartContactStreamingFail(p)
        \/ CreateParticipantConnectionOk(p) \/ CreateParticipantConnectionFail(p)
        \/ SendMessageOk(p) \/ SendMessageFail(p)
        \/ PutItemOk(p) \/ PutItemFail(p)
        \/ Finish(p)
    \/ \E c \in 1 .. MaxContacts : ContactEnds(c)
    \/ \E n \in Numbers : TtlExpiry(n)

Spec == Init /\ [][Next]_vars

----------------------------------------------------------------------------
\* What the claims speak of

Ended(p) == pc[p] = "done"
Ok(p) == Ended(p) /\ result[p].statusCode = 200
Failed(p) == Ended(p) /\ result[p].statusCode = 500
IsResumed(p) == Ok(p) /\ result[p].body.status = "Resumed"
IsCreated(p) == Ok(p) /\ result[p].body.status = "Created entry in DDB"

\* The positions of the calls of p to op, and the ones that resolved.
CallsOf(p, op) == {i \in DOMAIN calls[p] : calls[p][i].op = op}
OkCallsOf(p, op) == {i \in CallsOf(p, op) : calls[p][i].ok}

\* The send through the stored token of the record p found resolved.
ReuseSucceeded(p) ==
    /\ storedToken[p] # NoToken
    /\ \E i \in OkCallsOf(p, "SendMessage") : calls[p][i].arg = storedToken[p]

\* The send through the stored token threw.
ReuseFailed(p) ==
    /\ storedToken[p] # NoToken
    /\ \E i \in CallsOf(p, "SendMessage") :
        calls[p][i].arg = storedToken[p] /\ ~calls[p][i].ok

\* p makes a call in this step.
Calls(p) == calls'[p] # calls[p] /\ calls'[p] # <<>>
LastCall(p) == calls'[p][Len(calls'[p])]

\* C1: when a record with a connection token exists and the send through the
\* stored token succeeds, the invocation returns "Resumed" having called only
\* GetItem and SendMessage (no StartChatContact, StartContactStreaming,
\* CreateParticipantConnection or PutItem), and none of its steps changes the
\* session table, the contacts or the connections.
C1_ResumeInv ==
    \A p \in Procs :
        ReuseSucceeded(p) =>
            /\ IsResumed(p)
            /\ calls[p] = <<Call("GetItem", originatingNumber[p], ""),
                            Call("SendMessage", dbResponse[p].ConnectionToken, "")>>
C1_ResumeStep ==
    \A p \in Procs :
        (Calls(p) /\ LastCall(p).op \in {"GetItem", "SendMessage"})
            => UNCHANGED <<table, contacts, connections>>
\* C1 (theorem): a resumed invocation calls GetItem and SendMessage only and
\* leaves the table, the contacts and the connections as they were.
C1_ResumedLeavesRecord == []C1_ResumeInv /\ [][C1_ResumeStep]_vars
\* C1 (witness): an invocation answered "Resumed" and the item is the one it read.
C1_Witness ==
    \E p \in Procs : IsResumed(p) /\ GetItem(originatingNumber[p]) = dbResponse[p]

\* Every call of p but the failed send through the stored token resolved.
LaterCallsOk(p) ==
    \A i \in DOMAIN calls[p] :
        calls[p][i].ok \/ (calls[p][i].op = "SendMessage" /\ calls[p][i].arg = storedToken[p])

\* The contact p created exists at Connect, for p's number, and the token p
\* obtained is a connection of that contact.
NewContactOf(p) ==
    /\ ContactId[p] \in 1 .. Len(contacts)
    /\ contacts[ContactId[p]].CustomerNumber = originatingNumber[p]
    /\ newToken[p] \in 1 .. Len(connections)
    /\ connections[newToken[p]] = ContactId[p]

\* p's call in this step is the session write, and it resolved.
Writes(p) == Calls(p) /\ LastCall(p).op = "PutItem" /\ LastCall(p).ok

\* The items of the table for number n.
ItemsOf(n) == {r \in table : r.originatingNumber = n}

\* A step of p creates a contact exactly when it is a resolved StartChatContact.
CreatesOnlyByStartChat ==
    \A p \in Procs :
        Calls(p) =>
            Len(contacts') = Len(contacts) +
                (IF LastCall(p).op = "StartChatContact" /\ LastCall(p).ok THEN 1 ELSE 0)

\* C2: when the send through the stored token fails and every later call
\* succeeds, the invocation creates exactly one contact, whose creation request
\* asks for FROM_SEGMENT rehydration from the contactId read from the record,
\* and its write leaves, for that number, only the item with the new contactId
\* and the new connectionToken.
C2_FallbackInv ==
    \A p \in Procs :
        (Ended(p) /\ ReuseFailed(p) /\ LaterCallsOk(p)) =>
            /\ IsCreated(p)
            /\ Cardinality(CallsOf(p, "StartChatContact")) = 1
            /\ \A i \in CallsOf(p, "StartChatContact") :
                calls[p][i].arg.PersistentChat =
                    [RehydrationType |-> "FROM_SEGMENT",
                     SourceContactId |-> dbResponse[p].ContactId]
            /\ NewContactOf(p)
            /\ contacts[ContactId[p]].PersistentChat.SourceContactId = dbResponse[p].ContactId
            /\ ContactId[p] # dbResponse[p].ContactId
            /\ newToken[p] # dbResponse[p].ConnectionToken
            /\ result[p].body.contactId = ContactId[p]
C2_FallbackStep ==
    \A p \in Procs :
        (Writes(p) /\ ReuseFailed(p)) =>
            /\ ItemsOf(originatingNumber[p])' = {Item(p)}
            /\ \A r \in ItemsOf(originatingNumber[p])' : r.ContactId # dbResponse[p].ContactId
\* C2 (theorem): after a failed reuse, one new contact, rehydrated from the
\* contact of the item read, replaces that item.
C2_FallbackRehydrates ==
    []C2_FallbackInv /\ [][C2_FallbackStep /\ CreatesOnlyByStartChat]_vars
\* C2 (witness): a failed reuse ended in a rehydrated contact that the item names.
C2_Witness ==
    \E p \in Procs :
        /\ IsCreated(p) /\ ReuseFailed(p)
        /\ GetItem(originatingNumber[p]) = Item(p)
        /\ contacts[ContactId[p]].PersistentChat.RehydrationType = "FROM_SEGMENT"

\* C3: for a number without a session record, an invocation whose calls all
\* succeed creates exactly one contact and persists, for that number, an item
\* with the contactId of that contact and the connectionToken of the
\* connection established on it.
C3_FirstContactInv ==
    \A p \in Procs :
        (Ended(p) /\ calls[p] # <<>> /\ dbResponse[p] = NoItem
                  /\ \A i \in DOMAIN calls[p] : calls[p][i].ok) =>
            /\ IsCreated(p)
            /\ Cardinality(CallsOf(p, "StartChatContact")) = 1
            /\ NewContactOf(p)
            /\ \E i \in CallsOf(p, "PutItem") :
                calls[p][i].arg = [originatingNumber |-> originatingNumber[p],
                                   ContactId |-> ContactId[p],
                                   ConnectionToken |-> newToken[p]]
C3_FirstContactStep ==
    \A p \in Procs :
        (pc[p] = "PutItem" /\ IsCreated(p)' /\ dbResponse[p] = NoItem) =>
            GetItem(originatingNumber[p])' =
                [originatingNumber |-> originatingNumber[p],
                 ContactId |-> ContactId[p],
                 ConnectionToken |-> newToken[p]]
\* C3 (theorem): with no item, one contact is created and persisted with its token.
C3_NoRecordCreatesAndPersists ==
    []C3_FirstContactInv /\ [][C3_FirstContactStep /\ CreatesOnlyByStartChat]_vars
\* C3 (witness): an invocation that found no item has written its own.
C3_Witness ==
    \E p \in Procs :
        /\ IsCreated(p) /\ dbResponse[p] = NoItem
        /\ Item(p) \in table

\* The invocation of p ends in this step.
Ends(p) == pc[p] # "done" /\ pc'[p] = "done"

\* C4: an invocation ends either with success, the whole sequence done (a
\* "Created" answer comes with the write itself, after which the number's item
\* names the new contact and its connection token; a "Resumed" answer with the
\* table as it was), or with a failure, having written nothing; and the table
\* changes in no other step than a successful final write (or a TTL removal).
C4_EndStep ==
    \A p \in Procs :
        Ends(p) =>
            \/ /\ IsCreated(p)'
               /\ pc[p] = "PutItem"
               /\ ItemsOf(originatingNumber[p])' = {Item(p)}
               /\ NewContactOf(p)
               /\ \A op \in {"StartChatContact", "StartContactStreaming",
                             "CreateParticipantConnection", "PutItem"} :
                      Cardinality(OkCallsOf(p, op)') = 1
            \/ /\ IsResumed(p)'
               /\ table' = table
               /\ OkCallsOf(p, "PutItem")' = {}
               /\ TokenValid(dbResponse[p].ConnectionToken)
            \/ /\ ~Ok(p)'
               /\ table' = table
               /\ OkCallsOf(p, "PutItem")' = {}
C4_TableStep ==
    table' # table =>
        \/ \E p \in Procs : Ends(p) /\ IsCreated(p)'
        \/ (table' \subseteq table /\ UNCHANGED <<pc, calls>>)
\* C4 (theorem): an invocation ends with success and a true record, or with a
\* failure and an untouched table.
C4_SuccessOrUnchanged == [][C4_EndStep /\ C4_TableStep]_vars
\* C4 (witness): an invocation failed after creating a contact, and the item
\* it had read is still there.
C4_Witness ==
    \E p \in Procs :
        /\ Failed(p)
        /\ ContactId[p] # NoContact
        /\ dbResponse[p] # NoItem
        /\ GetItem(originatingNumber[p]) = dbResponse[p]

\* C5: two invocations for one number can both stand before their session
\* write, each with a contact of its own; the write is unconditional (it is
\* enabled whatever the table holds by then), and after each write the number
\* has the writer's item only, so the token of the earlier writer is lost.
C5_RaceInv ==
    \A p \in Procs :
        /\ pc[p] = "PutItem" => ENABLED PutItemOk(p)
        /\ \A q \in Procs \ {p} :
            (ContactId[p] # NoContact /\ ContactId[q] # NoContact) =>
                /\ ContactId[p] # ContactId[q]
                /\ (newToken[p] # NoToken => newToken[p] # newToken[q])
C5_RaceStep ==
    \A p \in Procs :
        Writes(p) =>
            /\ ItemsOf(originatingNumber[p])' = {Item(p)}
            /\ \A q \in Procs \ {p} :
                (IsCreated(q) /\ originatingNumber[q] = originatingNumber[p]) =>
                    \A r \in table' : r.ConnectionToken # newToken[q]
\* C5 (theorem): the session write is unconditional and the last writer's item
\* is the only one left for the number.
C5_LastWriteWins == []C5_RaceInv /\ [][C5_RaceStep]_vars
\* C5 (witness): two invocations read the same item; one has written its
\* contact, the other stands before its write with another contact.
C5_Witness ==
    \E p, q \in Procs :
        /\ p # q
        /\ originatingNumber[p] = originatingNumber[q]
        /\ pc[p] = "PutItem" /\ IsCreated(q)
        /\ dbResponse[p] = dbResponse[q]
        /\ ContactId[p] # ContactId[q]
        /\ table = {Item(q)}

\* Every invocation is between events.
Quiescent == \A p \in Procs : pc[p] \in {"idle", "done"}

\* The contacts created for number n.
ContactsOf(n) == {c \in 1 .. Len(contacts) : contacts[c].CustomerNumber = n}

\* C6 as stated: between invocations, the contactId of a number's item is the
\* most recently created contact for that number.
C6_Original ==
    Quiescent =>
        \A r \in table : \A c \in ContactsOf(r.originatingNumber) : c <= r.ContactId

\* C6 as amended: the contactId of a number's item is a contact created for
\* that number, and the item's connectionToken is a connection of that contact:
\* they are the ones of the invocation whose session write succeeded last.
C6_RecordInv ==
    \A r \in table :
        /\ r.ContactId \in ContactsOf(r.originatingNumber)
        /\ r.ConnectionToken \in 1 .. Len(connections)
        /\ connections[r.ConnectionToken] = r.ContactId
C6_RecordStep ==
    \A r \in table' \ table :
        \E p \in Procs :
            /\ Writes(p)
            /\ r = [originatingNumber |-> originatingNumber[p],
                    ContactId |-> ContactId[p],
                    ConnectionToken |-> newToken[p]]
            /\ ItemsOf(r.originatingNumber)' = {r}
\* C6 (theorem, amended): an item names a contact of its number and that
\* contact's connection, those of the last successful writer.
C6_RecordNamesOwnContact == []C6_RecordInv /\ [][C6_RecordStep]_vars
\* C6 (witness): between invocations, an item names a contact older than the
\* latest one created for its number.
C6_Witness ==
    /\ Quiescent
    /\ \E r \in table : \E c \in ContactsOf(r.originatingNumber) : c > r.ContactId

\* C7: the table holds at most one item per originating number.
C7_OneRecordPerNumber ==
    \A r1, r2 \in table : r1.originatingNumber = r2.originatingNumber => r1 = r2
\* C7 (witness): a write for a number that had an item has left its own item only.
C7_Witness ==
    \E p \in Procs :
        /\ IsCreated(p)
        /\ dbResponse[p] # NoItem
        /\ dbResponse[p] # Item(p)
        /\ ItemsOf(originatingNumber[p]) = {Item(p)}

\* A request that misses a required field: an unknown path, /salesforce
\* without originatingNumber or firstMessage, /modica without source or
\* destination.
MissingField(e) ==
    \/ e.rawPath \notin {"/salesforce", "/modica"}
    \/ e.rawPath = "/salesforce" /\ (e.originatingNumber = Undefined \/ e.firstMessage = Undefined)
    \/ e.rawPath = "/modica" /\ (e.originatingNumber = Undefined \/ e.destinationNumber = Undefined)

\* C8: a request that misses a required field is rejected, and an invocation
\* that answers 400 has made no external call and changed nothing outside.
C8_RejectInv ==
    /\ \A e \in Events : MissingField(e) => Rejected(e)
    /\ \A p \in Procs :
        (Ended(p) /\ result[p].statusCode = 400) =>
            calls[p] = <<>> /\ result[p].body = "Missing data"
C8_RejectStep ==
    \A p \in Procs :
        (Ends(p) /\ result'[p].statusCode = 400) =>
            pc[p] = "idle" /\ UNCHANGED <<table, contacts, connections, calls>>
\* C8 (theorem): missing fields are rejected with 400 before any external call.
C8_RejectedBeforeAnyCall == []C8_RejectInv /\ [][C8_RejectStep]_vars
\* C8 (witness): a request was rejected while the table and Connect hold sessions.
C8_Witness ==
    \E p \in Procs :
        Ended(p) /\ result[p].statusCode = 400 /\ table # {} /\ contacts # <<>>

\* Call i of p is the send through the stored token.
IsReuseCall(p, i) ==
    /\ storedToken[p] # NoToken
    /\ calls[p][i].op = "SendMessage"
    /\ calls[p][i].arg = storedToken[p]

\* C9: a failure of the lookup, the contact creation, the streaming
\* enablement, the connection creation, the send on the new connection or the
\* session write ends the invocation with statusCode 500 and the error of
\* that call; it is the invocation's last call, and no call is made twice.
C9_FailureIsFatal ==
    \A p \in Procs :
        /\ \A i \in DOMAIN calls[p] :
            (~calls[p][i].ok /\ ~IsReuseCall(p, i)) =>
                /\ Failed(p)
                /\ result[p].body.error = calls[p][i].err
                /\ i = Len(calls[p])
        /\ \A i, j \in DOMAIN calls[p] :
            (i < j /\ calls[p][i].op = calls[p][j].op) => calls[p][i].arg # calls[p][j].arg
\* C9 (witness): after a failed reuse, the send on the new connection failed too
\* and ended the invocation.
C9_Witness ==
    \E p \in Procs :
        /\ Failed(p) /\ ReuseFailed(p)
        /\ Cardinality(CallsOf(p, "SendMessage")) = 2

\* C10: an invocation that ends with success has no failed call but the send
\* through the stored token; after any other failed call the result is an
\* error.
C10_OnlyReuseFailureRecovers ==
    \A p \in Procs :
        /\ Ok(p) =>
            \A i \in DOMAIN calls[p] :
                ~calls[p][i].ok =>
                    /\ i = 2
                    /\ calls[p][i].op = "SendMessage"
                    /\ calls[p][i].arg = dbResponse[p].ConnectionToken
                    /\ dbResponse[p].ConnectionToken # NoToken
        /\ (\E i \in DOMAIN calls[p] : ~calls[p][i].ok /\ ~IsReuseCall(p, i)) =>
                Ended(p) /\ result[p].statusCode = 500
\* C10 (witness): an invocation succeeded although a send on a live token failed.
C10_Witness ==
    \E p \in Procs :
        /\ Ok(p)
        /\ \E i \in DOMAIN calls[p] : calls[p][i].err = "InternalServerException"

\* The send through the stored token failed on a token that was no longer
\* valid: the error is the one Connect gives for an expired or ended chat.
ReuseFailedOnDeadToken(p) ==
    \A i \in DOMAIN calls[p] :
        (IsReuseCall(p, i) /\ ~calls[p][i].ok) => calls[p][i].err = "AccessDeniedException"

\* p's call in this step is a contact creation that resolved.
CreatesContact(p) ==
    Calls(p) /\ LastCall(p).op = "StartChatContact" /\ LastCall(p).ok

C11_OnlyDeadTokenInv ==
    \A p \in Procs :
        (ReuseFailed(p) /\ CallsOf(p, "StartChatContact") # {}) => ReuseFailedOnDeadToken(p)
C11_NoContactWhileAliveStep ==
    \A p \in Procs :
        CreatesContact(p) =>
            \A r \in ItemsOf(originatingNumber[p]) : ~TokenValid(r.ConnectionToken)
\* C11 (as stated, violated): creation follows a failed reuse only when the
\* stored token was invalid, expired or its contact ended, and no invocation
\* creates a contact for a number whose stored token is of a living contact.
C11_Original == []C11_OnlyDeadTokenInv /\ [][C11_NoContactWhileAliveStep]_vars

\* The calls of p that send through the connection p created.
NewSendsOf(p) == {i \in CallsOf(p, "SendMessage") : ~IsReuseCall(p, i)}

\* p has established the connection of its new contact.
Connected(p) == OkCallsOf(p, "CreateParticipantConnection") # {}

\* The firstMessage flag of p's request is set: present and other than "0".
FlagSet(p) == firstMessage[p] # "0"

C13_Original ==
    \A p \in Procs :
        /\ Ok(p) =>
            /\ result[p].body.status \in {"Resumed", "Created"}
            /\ "contactId" \in DOMAIN result[p].body
        /\ (Ended(p) /\ \E i \in DOMAIN calls[p] : ~calls[p][i].ok /\ ~IsReuseCall(p, i)) =>
            /\ result[p].statusCode = 500
            /\ "error" \in DOMAIN result[p].body

\* C13: a successful result is either status "Resumed" with the messageId of
\* the send through the stored token (and no contactId), or status "Created
\* entry in DDB" with the contactId of the contact the invocation created;
\* every other result of an invocation that made a call has statusCode 500
\* and a body with the error of the failed call.
C13_ResultBodies ==
    \A p \in Procs :
        (Ended(p) /\ calls[p] # <<>>) =>
            IF result[p].statusCode = 200
            THEN \/ /\ result[p].body.status = "Resumed"
                    /\ DOMAIN result[p].body = {"status", "messageId"}
                    /\ ReuseSucceeded(p)
                    /\ ContactId[p] = NoContact
                 \/ /\ result[p].body.status = "Created entry in DDB"
                    /\ DOMAIN result[p].body = {"status", "contactId"}
                    /\ result[p].body.contactId = ContactId[p]
                    /\ ContactId[p] # NoContact
                    /\ OkCallsOf(p, "PutItem") # {}
            ELSE /\ result[p].statusCode = 500
                 /\ DOMAIN result[p].body = {"error"}
                 /\ result[p].body.error = calls[p][Len(calls[p])].err
                 /\ ~calls[p][Len(calls[p])].ok
\* C13 (witness): one environment ended with "Resumed", which carries no
\* contactId, the other with "Created entry in DDB".
C13_Witness ==
    \E p, q \in Procs :
        /\ IsResumed(p) /\ "contactId" \notin DOMAIN result[p].body
        /\ IsCreated(q)

\* The step is the store's passive expiry of the record of number n: no
\* invocation moves, calls or returns, and nothing but the table changes.
IsTtlExpiry(n) ==
    /\ table' = {r \in table : r.originatingNumber # n}
    /\ UNCHANGED <<environments, customers, previousRun, salesforce, contacts, connections, pc, locals, result, calls>>

\* C15: a step in which an invocation calls, returns or is invoked leaves
\* every number that has a session record with a record; a number loses its
\* record only in a step that is the TTL expiry of that record; an item
\* leaves the table only by that expiry or by a session write that puts
\* another item for the same number in its place.
C15_NoDeleteStep ==
    /\ \A n \in Numbers :
        (ItemsOf(n) # {} /\ ItemsOf(n)' = {}) => IsTtlExpiry(n)
    /\ \A p \in Procs :
        (pc'[p] # pc[p] \/ Calls(p)) =>
            \A n \in Numbers : ItemsOf(n) # {} => ItemsOf(n)' # {}
    /\ \A r \in table : r \notin table' =>
            \/ IsTtlExpiry(r.originatingNumber)
            \/ \E p \in Procs : Writes(p) /\ Item(p).originatingNumber = r.originatingNumber
                                          /\ Item(p) \in table'
\* C15 (theorem): records are never deleted by the handler, only replaced by
\* its write or removed by TTL expiry.
C15_NeverDeletes == [][C15_NoDeleteStep]_vars
\* C15 (witness): an invocation that found a record failed after the reuse
\* failed, and the number still has exactly the record it found.
C15_Witness ==
    \E p \in Procs :
        /\ Failed(p) /\ ReuseFailed(p)
        /\ ItemsOf(originatingNumber[p]) = {dbResponse[p]}
        /\ CallsOf(p, "PutItem") # {}

\* The rehydration that the item read by p's lookup calls for.
RehydrationFor(p) ==
    IF dbResponse[p].ContactId # NoContact
    THEN [RehydrationType |-> "FROM_SEGMENT", SourceContactId |-> dbResponse[p].ContactId]
    ELSE NoRehydration

\* C16: every contact-creation request of an invocation asks for FROM_SEGMENT
\* rehydration exactly when the invocation's lookup returned an item with a
\* contactId, with that contactId as the source; when the lookup found no
\* item, the request asks for none; the contact created carries the request's
\* rehydration.
C16_RehydratesIffPriorContact ==
    \A p \in Procs :
        \A i \in CallsOf(p, "StartChatContact") :
            /\ calls[p][i].arg.PersistentChat = RehydrationFor(p)
            /\ (calls[p][i].arg.PersistentChat.RehydrationType = "FROM_SEGMENT")
                    <=> (dbResponse[p] # NoItem)
            /\ calls[p][i].ok =>
                    contacts[ContactId[p]].PersistentChat = RehydrationFor(p)
\* C16 (witness): one creation request asked for rehydration from the contact
\* of the item read, another, after an empty lookup, asked for none.
C16_Witness ==
    \E p, q \in Procs :
        /\ \E i \in OkCallsOf(p, "StartChatContact") :
                /\ dbResponse[p] # NoItem
                /\ calls[p][i].arg.PersistentChat.SourceContactId = dbResponse[p].ContactId
        /\ \E j \in OkCallsOf(q, "StartChatContact") :
                /\ dbResponse[q] = NoItem
                /\ calls[q][j].arg.PersistentChat = NoRehydration

\* Invocation p follows, in its environment, a resumed invocation for the
\* same number.
FollowsResumed(p) ==
    /\ environments = {p}
    /\ previousRun # NoRun
    /\ pc[p] # "idle"
    /\ originatingNumber[p] = previousRun.originatingNumber

\* C14: when an invocation follows a resumed invocation for the same number
\* and its send through the stored token succeeds, it answers "Resumed" too,
\* with the same result; the item it read is the item the first one read, and
\* when it ends the table holds for that number no other item than that one
\* (the item itself, unless its TTL has expired meanwhile).
C14_ResumedTwice ==
    \A p \in Procs :
        (FollowsResumed(p) /\ Ended(p) /\ ReuseSucceeded(p)) =>
            /\ IsResumed(p)
            /\ result[p] = Resumed("Id")
            /\ dbResponse[p] = previousRun.Item
            /\ ItemsOf(originatingNumber[p]) \subseteq {previousRun.Item}
            /\ Len(calls[p]) = 2
\* C14 (witness): the second of two resumed invocations in a row has ended and
\* the record is the one the first invocation read.
C14_Witness ==
    \E p \in Procs :
        /\ FollowsResumed(p) /\ IsResumed(p)
        /\ GetItem(originatingNumber[p]) = previousRun.Item

----------------------------------------------------------------------------
\* The Salesforce messaging handler: src/unnamed/part_003, lines 1-412.
\* One step per await; the token-cache write, which nobody awaits, is a step
\* of its own.

\* Access tokens Salesforce issues in one run of the model.
MaxTokens == 2
\* Conversations Salesforce creates in one run of the model.
MaxConversations == 2

Mobiles == {"+640000001"}
\* The primary key of the cached token (line 112).
tokenCacheKey == "accessToken"
\* The service number of the first outbound message (line 76).
FirstOutbound == "9999"
ServiceNumbers == {"9999", "2000"}

\* The variables of InboundHandlerV2, which this handler never touches.
inbound == <<environments, customers, previousRun, table, contacts, connections, pc,
             locals, result, calls, others>>
store == <<cache, issued, expired, conversations, saving, invocations>>
fields == <<mobileNumber, text, serviceNumber>>

\* Lines 44-48: the fields read from the body (content ?? customMessage is
\* one value here).
Bodies ==
    [json : {TRUE}, source : Mobiles \cup {Undefined}, content : {"hello", Undefined},
     destination : ServiceNumbers \cup {Undefined}]
    \cup [json : {FALSE}, source : {Undefined}, content : {Undefined},
          destination : {Undefined}]

\* Lines 42-68: the body does not parse, or a field is missing.
Invalid(e) ==
    \/ ~e.json
    \/ Falsy(e.source)
    \/ Falsy(e.content)
    \/ Falsy(e.destination)

\* The bodies the environments are offered: any body when events follow one
\* another; two concurrent environments take valid messages to a service
\* number other than '9999'.
Offered ==
    IF invocations = Procs
    THEN {e \in Bodies : ~Invalid(e) /\ e.destination # FirstOutbound}
    ELSE Bodies

InvalidPayload == [statusCode |-> 400, body |-> [error |-> "Invalid request payload."]]
\* Lines 84-90.
Completed(c) ==
    [statusCode |-> 200,
     body |-> [message |-> "Salesforce messaging process completed successfully.",
               conversationId |-> c]]
\* Lines 94-100.
ExecutionFailed(details) ==
    [statusCode |-> 500,
     body |-> [error |-> "Failed to execute Salesforce messaging process.",
               details |-> details]]

\* An item of the table; an attribute the item lacks is NoAccessToken,
\* NoConversation or Undefined.
TokenItem(t) ==
    [mobileNumber |-> tokenCacheKey, accessToken |-> t,
     conversationId |-> NoConversation, serviceNumber |-> Undefined]
NoCacheItem ==
    [mobileNumber |-> Undefined, accessToken |-> NoAccessToken,
     conversationId |-> NoConversation, serviceNumber |-> Undefined]

\* GetCommand with Key {mobileNumber: k} (lines 116-123, 380-387).
CacheGet(k) ==
    IF \E r \in cache : r.mobileNumber = k
    THEN CHOOSE r \in cache : r.mobileNumber = k
    ELSE NoCacheItem

\* PutCommand: the item replaces the one of the same key (lines 287-288, 324-325).
CachePut(item) == {r \in cache : r.mobileNumber # item.mobileNumber} \cup {item}

\* Lines 265-284: the item saveToDynamoDB builds from its four parameters.
saveToDynamoDB(convId, mobile, messageContent, service) ==
    [mobileNumber |-> mobile, accessToken |-> NoAccessToken,
     conversationId |-> convId, serviceNumber |-> service]

\* Lines 202 and 406: both callers pass three arguments, so the service number
\* arrives as messageContent and the parameter serviceNumber is undefined.
SavedItem(p) ==
    saveToDynamoDB(conversationId[p], mobileNumber[p], serviceNumber[p], Undefined)

Answer(p, r) ==
    /\ at' = [at EXCEPT ![p] = "done"]
    /\ response' = [response EXCEPT ![p] = r]

Record(p, c) == requests' = [requests EXCEPT ![p] = Append(@, c)]

\* Lines 37-70: parse and validate, then getAccessToken's cache read is awaited.
Receive(p) ==
    /\ p \in invocations
    /\ at[p] = "idle"
    /\ \E e \in Offered :
        IF Invalid(e)
        THEN /\ Answer(p, InvalidPayload)
             /\ UNCHANGED fields
        ELSE /\ at' = [at EXCEPT ![p] = "GetToken"]
             /\ mobileNumber' = [mobileNumber EXCEPT ![p] = e.source]
             /\ text' = [text EXCEPT ![p] = e.content]
             /\ serviceNumber' = [serviceNumber EXCEPT ![p] = e.destination]
             /\ UNCHANGED response
    /\ UNCHANGED <<inbound, store, accessToken, conversationId, requests>>

\* GetTokenOk that asks Salesforce for a token whatever the cache holds.
GetTokenOk_AlwaysFetches(p) ==
    /\ at[p] = "GetToken"
    /\ at' = [at EXCEPT ![p] = "FetchToken"]
    /\ Record(p, Call("GetToken", tokenCacheKey, ""))
    /\ UNCHANGED <<inbound, store, fields, accessToken, conversationId, response>>

\* Lines 115-136: the cache read resolves; a cached token is returned, and
\* getOrCreateConversation's lookup is awaited next.
GetTokenOk(p) ==
    /\ at[p] = "GetToken"
    /\ LET item == CacheGet(tokenCacheKey)
       IN IF item.accessToken # NoAccessToken
          THEN /\ accessToken' = [accessToken EXCEPT ![p] = item.accessToken]
               /\ at' = [at EXCEPT ![p] = "GetConversation"]
          ELSE /\ at' = [at EXCEPT ![p] = "FetchToken"]
               /\ UNCHANGED accessToken
    /\ Record(p, Call("GetToken", tokenCacheKey, ""))
    /\ UNCHANGED <<inbound, store, fields, conversationId, response>>

\* Lines 138-141: a failed cache read is not re-thrown.
GetTokenFail(p) ==
    /\ at[p] = "GetToken"
    /\ at' = [at EXCEPT ![p] = "FetchToken"]
    /\ Record(p, Call("GetToken", tokenCacheKey, "DynamoDBServiceException"))
    /\ UNCHANGED <<inbound, store, fields, accessToken, conversationId, response>>

\* Lines 145-152, 337-365: Salesforce issues a token; its write to the cache
\* is started and not awaited.
fetchNewAccessTokenOk(p) ==
    /\ at[p] = "FetchToken"
    /\ issued < MaxTokens
    /\ issued' = issued + 1
    /\ accessToken' = [accessToken EXCEPT ![p] = issued + 1]
    /\ saving' = saving \cup {issued + 1}
    /\ at' = [at EXCEPT ![p] = "GetConversation"]
    /\ Record(p, Call("FetchToken", "orgId", ""))
    /\ UNCHANGED <<inbound, cache, conversations, invocations, expired, fields, conversationId, response>>

\* Fails that also evicts the cached token.
Fails_Evicts(p, op, arg, err) ==
    /\ Answer(p, ExecutionFailed(err))
    /\ Record(p, Call(op, arg, err))
    /\ cache' = {r \in cache : r.mobileNumber # tokenCacheKey}
    /\ UNCHANGED <<inbound, issued, expired, conversations, saving, invocations, fields,
                   accessToken, conversationId>>

\* Lines 153-156 and 92-100: a failure of any awaited step but the reads and
\* the record writes ends the invocation with 500.
Fails(p, op, arg, err) ==
    /\ Answer(p, ExecutionFailed(err))
    /\ Record(p, Call(op, arg, err))
    /\ UNCHANGED <<inbound, store, fields, accessToken, conversationId>>

fetchNewAccessTokenFail(p) ==
    /\ at[p] = "FetchToken"
    /\ Fails(p, "FetchToken", "orgId", "Step 1 (getAccessToken) failed")

\* Lines 305-326: the background write of token t settles.
saveAccessTokenToDynamoDBOk(t) ==
    /\ t \in saving
    /\ cache' = CachePut(TokenItem(t))
    /\ saving' = saving \ {t}
    /\ UNCHANGED <<inbound, issued, conversations, invocations, expired, at, fields, accessToken,
                   conversationId, response, requests>>

\* Lines 327-330: its failure is logged only.
saveAccessTokenToDynamoDBFail(t) ==
    /\ t \in saving
    /\ saving' = saving \ {t}
    /\ UNCHANGED <<inbound, cache, issued, conversations, invocations, expired, at, fields,
                   accessToken, conversationId, response, requests>>

\* Proceed that sends the message whatever the service number.
Proceed_AlwaysSends(p, c) ==
    /\ at' = [at EXCEPT ![p] = "SendMessage"]
    /\ UNCHANGED response

\* Lines 76-90: with the conversation c in hand, the message is sent unless
\* the service number is '9999'.
Proceed(p, c) ==
    IF serviceNumber[p] = FirstOutbound
    THEN Answer(p, Completed(c))
    ELSE /\ at' = [at EXCEPT ![p] = "SendMessage"]
         /\ UNCHANGED response

\* GetConversationOk that creates a conversation whatever the table holds.
GetConversationOk_AlwaysCreates(p) ==
    /\ at[p] = "GetConversation"
    /\ at' = [at EXCEPT ![p] = "CreateConversation"]
    /\ Record(p, Call("GetConversation", mobileNumber[p], ""))
    /\ UNCHANGED <<inbound, store, fields, accessToken, conversationId, response>>

\* Lines 379-395: the lookup resolves; a stored conversationId is returned.
GetConversationOk(p) ==
    /\ at[p] = "GetConversation"
    /\ LET item == CacheGet(mobileNumber[p])
       IN IF item.conversationId # NoConversation
          THEN /\ conversationId' = [conversationId EXCEPT ![p] = item.conversationId]
               /\ Proceed(p, item.conversationId)
          ELSE /\ at' = [at EXCEPT ![p] = "CreateConversation"]
               /\ UNCHANGED <<conversationId, response>>
    /\ Record(p, Call("GetConversation", mobileNumber[p], ""))
    /\ UNCHANGED <<inbound, store, fields, accessToken>>

\* Lines 397-400: a failed lookup is not re-thrown.
GetConversationFail(p) ==
    /\ at[p] = "GetConversation"
    /\ at' = [at EXCEPT ![p] = "CreateConversation"]
    /\ Record(p, Call("GetConversation", mobileNumber[p], "DynamoDBServiceException"))
    /\ UNCHANGED <<inbound, store, fields, accessToken, conversationId, response>>

\* Salesforce accepts the bearer token t (lines 177, 229): it has not expired.
Accepted(t) == t > expired

\* Lines 165-202: Salesforce answers 201 to the conversation with the fresh
\* UUID; the first saveToDynamoDB is awaited.
createNewSalesforceConversationOk(p) ==
    /\ at[p] = "CreateConversation"
    /\ Accepted(accessToken[p])
    /\ Len(conversations) < MaxConversations
    /\ LET id == Len(conversations) + 1
           routingAttributes == [mobileNumber |-> mobileNumber[p],
                                 serviceNumber |-> serviceNumber[p]]
       IN /\ conversations' = Append(conversations, routingAttributes)
          /\ conversationId' = [conversationId EXCEPT ![p] = id]
          /\ Record(p, Call("CreateConversation", routingAttributes, ""))
    /\ at' = [at EXCEPT ![p] = "Save202"]
    /\ UNCHANGED <<inbound, cache, issued, saving, invocations, expired, fields, accessToken, response>>

\* Lines 190-199 and 409-411.
createNewSalesforceConversationFail(p) ==
    /\ at[p] = "CreateConversation"
    /\ Fails(p, "CreateConversation",
             [mobileNumber |-> mobileNumber[p], serviceNumber |-> serviceNumber[p]],
             "Step 2 (getOrCreateConversation) failed")

\* After the write of line 202 comes the one of line 406, then lines 76-90.
AfterSave(p) ==
    IF at[p] = "Save202"
    THEN /\ at' = [at EXCEPT ![p] = "Save406"]
         /\ UNCHANGED response
    ELSE Proceed(p, conversationId[p])

\* saveToDynamoDBOk as a conditional put: an existing record is kept.
saveToDynamoDBOk_IfAbsent(p) ==
    /\ at[p] \in {"Save202", "Save406"}
    /\ cache' = IF CacheGet(mobileNumber[p]) = NoCacheItem THEN CachePut(SavedItem(p)) ELSE cache
    /\ AfterSave(p)
    /\ Record(p, Call("SaveConversation", SavedItem(p), ""))
    /\ UNCHANGED <<inbound, issued, conversations, saving, invocations, expired, fields,
                   accessToken, conversationId>>

\* Lines 286-289: the record write resolves.
saveToDynamoDBOk(p) ==
    /\ at[p] \in {"Save202", "Save406"}
    /\ cache' = CachePut(SavedItem(p))
    /\ AfterSave(p)
    /\ Record(p, Call("SaveConversation", SavedItem(p), ""))
    /\ UNCHANGED <<inbound, issued, conversations, saving, invocations, expired, fields, accessToken,
                   conversationId>>

\* saveToDynamoDBFail with the error thrown again (the line commented out at 294).
saveToDynamoDBFail_Throws(p) ==
    /\ at[p] \in {"Save202", "Save406"}
    /\ Fails(p, "SaveConversation", SavedItem(p), "Failed to save to DynamoDB")

\* Lines 290-295: its failure is logged and execution continues.
saveToDynamoDBFail(p) ==
    /\ at[p] \in {"Save202", "Save406"}
    /\ AfterSave(p)
    /\ Record(p, Call("SaveConversation", SavedItem(p), "DynamoDBServiceException"))
    /\ UNCHANGED <<inbound, store, fields, accessToken, conversationId>>

\* Lines 216-256: Salesforce accepts the message (202).
sendMessageOk(p) ==
    /\ at[p] = "SendMessage"
    /\ Accepted(accessToken[p])
    /\ Answer(p, Completed(conversationId[p]))
    /\ Record(p, Call("SendMessage", [conversationId |-> conversationId[p], text |-> text[p]], ""))
    /\ UNCHANGED <<inbound, store, fields, accessToken, conversationId>>

\* Lines 247-250.
sendMessageFail(p) ==
    /\ at[p] = "SendMessage"
    /\ Fails(p, "SendMessage", [conversationId |-> conversationId[p], text |-> text[p]],
             "Step 3 (sendMessage) failed")

\* The Lambda has answered; the next event starts from fresh locals. Events
\* follow one another in the deployment with one environment; two concurrent
\* environments take one event each.
Respond(p) ==
    /\ at[p] = "done"
    /\ invocations = {p}
    /\ at' = [at EXCEPT ![p] = "idle"]
    /\ mobileNumber' = [mobileNumber EXCEPT ![p] = Undefined]
    /\ text' = [text EXCEPT ![p] = Undefined]
    /\ serviceNumber' = [serviceNumber EXCEPT ![p] = Undefined]
    /\ accessToken' = [accessToken EXCEPT ![p] = NoAccessToken]
    /\ conversationId' = [conversationId EXCEPT ![p] = NoConversation]
    /\ response' = [response EXCEPT ![p] = Pending]
    /\ requests' = [requests EXCEPT ![p] = <<>>]
    /\ UNCHANGED <<inbound, store>>

\* DynamoDB removes an item whose expiryDateTime has passed (lines 271, 309).
CacheTtlExpiry(k) ==
    /\ \E r \in cache : r.mobileNumber = k
    /\ cache' = {r \in cache : r.mobileNumber # k}
    /\ UNCHANGED <<inbound, issued, conversations, saving, invocations, expired, at, fields,
                   accessToken, conversationId, response, requests>>

\* Salesforce stops accepting the oldest token still accepted: tokens live
\* for a fixed time, whatever the cache item's expiryDateTime (line 309) says.
TokenExpires ==
    /\ expired < issued
    /\ expired' = expired + 1
    /\ UNCHANGED <<inbound, cache, issued, conversations, saving, invocations, at, fields,
                   accessToken, conversationId, response, requests>>

\* Either one execution environment that takes event after event, or two
\* that run concurrently.
SalesforceInit ==
    /\ \E E \in {{1}, Procs} : SalesforceIdle(E)
    /\ environments = {}
    /\ customers = {}
    /\ table = {}
    /\ contacts = <<>>
    /\ connections = <<>>
    /\ pc = [p \in Procs |-> "idle"]
    /\ originatingNumber = [p \in Procs |-> Undefined]
    /\ firstMessage = [p \in Procs |-> Undefined]
    /\ dbResponse = [p \in Procs |-> NoItem]
    /\ previousContactId = [p \in Procs |-> NoContact]
    /\ storedToken = [p \in Procs |-> NoToken]
    /\ ContactId = [p \in Procs |-> NoContact]
    /\ ParticipantToken = [p \in Procs |-> NoContact]
    /\ newToken = [p \in Procs |-> NoToken]
    /\ result = [p \in Procs |-> Pending]
    /\ calls = [p \in Procs |-> <<>>]
    /\ previousRun = NoRun
    /\ OthersIdle

SalesforceNext ==
    \/ \E p \in Procs :
        \/ Receive(p)
        \/ GetTokenOk(p) \/ GetTokenFail(p)
        \/ fetchNewAccessTokenOk(p) \/ fetchNewAccessTokenFail(p)
        \/ GetConversationOk(p) \/ GetConversationFail(p)
        \/ createNewSalesforceConversationOk(p) \/ createNewSalesforceConversationFail(p)
        \/ saveToDynamoDBOk(p) \/ saveToDynamoDBFail(p)
        \/ sendMessageOk(p) \/ sendMessageFail(p)
        \/ Respond(p)
    \/ \E t \in 1 .. MaxTokens : saveAccessTokenToDynamoDBOk(t) \/ saveAccessTokenToDynamoDBFail(t)
    \/ \E k \in Mobiles \cup {tokenCacheKey} : CacheTtlExpiry(k)
    \/ TokenExpires

SalesforceSpec == SalesforceInit /\ [][SalesforceNext]_vars

----------------------------------------------------------------------------
\* Claims on the Salesforce messaging handler.

Answered(p) == at[p] = "done"
RequestsOf(p, op) == {i \in DOMAIN requests[p] : requests[p][i].op = op}
OkRequestsOf(p, op) == {i \in RequestsOf(p, op) : requests[p][i].ok}
\* p makes a call in this step.
Requests(p) == requests'[p] # requests[p] /\ requests'[p] # <<>>
LastRequest(p) == requests'[p][Len(requests'[p])]
\* The items of the table under key k.
CacheItemsOf(k) == {r \in cache : r.mobileNumber = k}

\* C17 (as stated, violated): when the record write that follows the creation
\* of a conversation resolves, the item under the request's mobile number holds
\* the new conversationId and the request's destination service number.
C17_Original ==
    [][\A p \in Procs :
        (Requests(p) /\ LastRequest(p).op = "SaveConversation" /\ LastRequest(p).ok) =>
            \E r \in cache' :
                /\ r.mobileNumber = mobileNumber[p]
                /\ r.conversationId = conversationId[p]
                /\ r.serviceNumber = serviceNumber[p]]_vars

\* The token the cache holds (NoAccessToken when it holds none).
CachedToken == CacheGet(tokenCacheKey).accessToken

\* C18: getAccessToken's steps. A cache read that resolves on an item with an
\* accessToken returns that token: no token is requested, none is issued and no
\* cache write is started. A read that finds no token, or fails, is followed
\* by the request of a new token; when that request resolves, the token issued
\* is the one returned and its cache write is started; when it fails, the
\* invocation fails. No other step issues a token or starts a cache write.
C18_TokenStep ==
    \A p \in Procs :
        Requests(p) =>
            /\ (LastRequest(p).op = "GetToken" /\ LastRequest(p).ok
                    /\ CachedToken # NoAccessToken) =>
                    /\ accessToken'[p] = CachedToken
                    /\ at'[p] = "GetConversation"
                    /\ UNCHANGED <<issued, saving, cache>>
            /\ (LastRequest(p).op = "GetToken"
                    /\ (~LastRequest(p).ok \/ CachedToken = NoAccessToken)) =>
                    /\ at'[p] = "FetchToken"
                    /\ accessToken'[p] = NoAccessToken
                    /\ UNCHANGED <<issued, saving, cache>>
            /\ (LastRequest(p).op = "FetchToken" /\ LastRequest(p).ok) =>
                    /\ issued' = issued + 1
                    /\ accessToken'[p] = issued'
                    /\ saving' = saving \cup {issued'}
                    /\ at'[p] = "GetConversation"
                    /\ UNCHANGED cache
            /\ (LastRequest(p).op = "FetchToken" /\ ~LastRequest(p).ok) =>
                    /\ at'[p] = "done"
                    /\ response'[p].statusCode = 500
                    /\ UNCHANGED <<issued, saving, cache>>
            /\ LastRequest(p).op # "FetchToken" => UNCHANGED <<issued, saving>>
\* The calls of getAccessToken in an invocation: one cache read, then at most
\* one token request, made only after a read that returned no token; an
\* invocation is without a token only before getAccessToken has returned, or
\* when it was rejected before any call, or when it ended with 500 on the
\* failed token request.
C18_TokenInv ==
    \A p \in Procs :
        /\ Cardinality(RequestsOf(p, "GetToken")) <= 1
        /\ Cardinality(RequestsOf(p, "FetchToken")) <= 1
        /\ \A i \in RequestsOf(p, "GetToken") : i = 1
        /\ \A i \in RequestsOf(p, "FetchToken") : i = 2
        /\ (accessToken[p] = NoAccessToken) <=>
                \/ at[p] \in {"idle", "GetToken", "FetchToken"}
                \/ Answered(p) /\ requests[p] = <<>>
                \/ /\ Answered(p) /\ Len(requests[p]) = 2
                   /\ requests[p][2].op = "FetchToken"
                   /\ ~requests[p][2].ok
                   /\ response[p].statusCode = 500
StoredConversation(n) == CacheGet(n).conversationId

\* C19: getOrCreateConversation's steps. A lookup that resolves on a record
\* with a conversationId returns that id and no conversation is created. A
\* lookup that finds none, or fails, is followed by the creation request; when
\* it resolves, one conversation exists more, for the request's mobile number,
\* and its id is the one returned. No other step creates a conversation.
C19_ConversationStep ==
    /\ \A p \in Procs :
        Requests(p) =>
            /\ (LastRequest(p).op = "GetConversation" /\ LastRequest(p).ok
                    /\ StoredConversation(mobileNumber[p]) # NoConversation) =>
                    /\ conversationId'[p] = StoredConversation(mobileNumber[p])
                    /\ at'[p] \in {"SendMessage", "done"}
                    /\ conversations' = conversations
            /\ (LastRequest(p).op = "GetConversation"
                    /\ (~LastRequest(p).ok
                        \/ StoredConversation(mobileNumber[p]) = NoConversation)) =>
                    /\ at'[p] = "CreateConversation"
                    /\ conversationId'[p] = NoConversation
                    /\ conversations' = conversations
            /\ (LastRequest(p).op = "CreateConversation" /\ LastRequest(p).ok) =>
                    /\ Len(conversations') = Len(conversations) + 1
                    /\ conversationId'[p] = Len(conversations')
                    /\ conversations'[conversationId'[p]].mobileNumber = mobileNumber[p]
                    /\ \A c \in DOMAIN conversations : conversations'[c] = conversations[c]
            /\ (LastRequest(p).op = "CreateConversation" /\ ~LastRequest(p).ok) =>
                    /\ at'[p] = "done"
                    /\ response'[p].statusCode = 500
                    /\ conversations' = conversations
    /\ conversations' # conversations =>
            \E p \in Procs : Requests(p) /\ LastRequest(p).op = "CreateConversation"
    /\ \A p \in Procs : (at[p] # "idle" /\ conversationId[p] # NoConversation) =>
            conversationId'[p] = conversationId[p] \/ at'[p] = "idle"
\* Within an invocation: one lookup, at most one creation request, made only
\* after a lookup that returned no id; a successful result carries the id
\* that getOrCreateConversation returned.
C19_ConversationInv ==
    \A p \in Procs :
        /\ Cardinality(RequestsOf(p, "GetConversation")) <= 1
        /\ Cardinality(RequestsOf(p, "CreateConversation")) <= 1
        /\ \A i \in RequestsOf(p, "CreateConversation") :
            /\ i > 1
            /\ requests[p][i - 1].op = "GetConversation"
        /\ (Answered(p) /\ response[p].statusCode = 200) =>
            /\ conversationId[p] # NoConversation
            /\ response[p].body.conversationId = conversationId[p]
            /\ conversationId[p] \in DOMAIN conversations
\* C19 (theorem): getOrCreateConversation returns the stored conversationId
\* and creates nothing, or creates exactly one conversation and returns its id.
C19_GetOrCreateConversation == []C19_ConversationInv /\ [][C19_ConversationStep]_vars
\* C19 (witness): an invocation completed on the stored conversationId
\* without a creation request.
C19_Witness ==
    \E p \in Procs :
        /\ Answered(p) /\ response[p].statusCode = 200
        /\ RequestsOf(p, "CreateConversation") = {}
        /\ conversationId[p] = StoredConversation(mobileNumber[p])
        /\ conversations # <<>>

\* Where the invocation goes after a record write, resolved or not.
NextAfterSave(p) ==
    IF at[p] = "Save202" THEN "Save406"
    ELSE IF serviceNumber[p] = FirstOutbound THEN "done" ELSE "SendMessage"

\* C20: a record write moves the invocation to the same next step whether it
\* resolves or fails, and when that ends the invocation the result is 200 with
\* the conversationId; a failed write leaves the table as it was. The settling
\* of a token-cache write moves no invocation and changes no result; when it
\* fails the table is as it was.
C20_WriteStep ==
    /\ \A p \in Procs :
        (Requests(p) /\ LastRequest(p).op = "SaveConversation") =>
            /\ at'[p] = NextAfterSave(p)
            /\ at'[p] = "done" => response'[p] = Completed(conversationId[p])
            /\ at'[p] # "done" => response'[p] = response[p]
            /\ cache' = IF LastRequest(p).ok THEN CachePut(SavedItem(p)) ELSE cache
    /\ saving' # saving /\ saving' \subseteq saving =>
            /\ UNCHANGED <<at, response, requests, accessToken, conversationId>>
            /\ \E t \in saving : cache' \in {cache, CachePut(TokenItem(t))}
\* An invocation whose only failed calls are reads of the table and record
\* writes ends with 200 and the conversationId; while a token-cache write is
\* still unsettled the invocation goes on and can end.
C20_WriteInv ==
    \A p \in Procs :
        (Answered(p) /\ requests[p] # <<>>
            /\ \A i \in DOMAIN requests[p] :
                    ~requests[p][i].ok =>
                        requests[p][i].op \in {"GetToken", "GetConversation", "SaveConversation"})
            => response[p] = Completed(conversationId[p])
\* C20 (theorem): a failed token-cache write or record write neither fails nor
\* blocks the invocation and leaves the table unchanged.
C20_WriteFailuresIgnored == []C20_WriteInv /\ [][C20_WriteStep]_vars
\* C20 (witness): an invocation ended with 200 although both its record writes
\* failed and the write of the token it fetched is still unsettled or failed:
\* the table holds neither the record nor the token.
C20_Witness ==
    \E p \in Procs :
        /\ Answered(p) /\ response[p].statusCode = 200
        /\ OkRequestsOf(p, "FetchToken") # {}
        /\ Cardinality(RequestsOf(p, "SaveConversation")) = 2
        /\ OkRequestsOf(p, "SaveConversation") = {}
        /\ cache = {}

----------------------------------------------------------------------------
\* Further claims on InboundHandlerV2.

\* C25 (as stated, violated): an invocation that ended with an error result
\* has left no contact of its own that the number's session record does not
\* reference, and has delivered no message through a new connection.
C25_Original ==
    \A p \in Procs :
        Failed(p) =>
            /\ \A i \in OkCallsOf(p, "StartChatContact") :
                \E r \in ItemsOf(originatingNumber[p]) : r.ContactId = ContactId[p]
            /\ \A i \in NewSendsOf(p) : ~calls[p][i].ok

\* Call i of p comes right after a resolved call of operation op.
Follows(p, i, op) ==
    /\ i > 1
    /\ calls[p][i - 1].op = op
    /\ calls[p][i - 1].ok

\* C26: in the call log of an invocation, streaming enablement comes right
\* after the resolved contact creation and is for the contact created, the
\* connection creation right after the resolved streaming enablement and with
\* that contact's participant token, the send through the new connection right
\* after the resolved connection creation, and the session write right after
\* the resolved send or, when nothing is to be sent, the resolved connection
\* creation; each is called at most once; the write's item holds the
\* contactId and the connectionToken that these calls returned.
C26_CreateOrder ==
    \A p \in Procs :
        /\ \A i \in CallsOf(p, "StartContactStreaming") :
            /\ Follows(p, i, "StartChatContact")
            /\ calls[p][i].arg = ContactId[p]
        /\ \A i \in CallsOf(p, "CreateParticipantConnection") :
            /\ Follows(p, i, "StartContactStreaming")
            /\ calls[p][i].arg = ParticipantToken[p]
        /\ \A i \in NewSendsOf(p) :
            /\ Follows(p, i, "CreateParticipantConnection")
            /\ calls[p][i].arg = newToken[p]
        /\ \A i \in CallsOf(p, "PutItem") :
            /\ \/ Follows(p, i, "CreateParticipantConnection") /\ firstMessage[p] # "0"
               \/ Follows(p, i, "SendMessage") /\ (i - 1) \in NewSendsOf(p)
            /\ \A j \in 1 .. (i - 1) : calls[p][j].ok \/ IsReuseCall(p, j)
            /\ calls[p][i].arg = [originatingNumber |-> originatingNumber[p],
                                  ContactId |-> ContactId[p],
                                  ConnectionToken |-> newToken[p]]
            /\ NewContactOf(p)
            /\ i = Len(calls[p])
        /\ \A op \in {"StartChatContact", "StartContactStreaming",
                      "CreateParticipantConnection", "PutItem"} :
            Cardinality(CallsOf(p, op)) <= 1
        /\ Cardinality(NewSendsOf(p)) <= 1
\* C26 (witness): an invocation has gone through all five steps, the send
\* included, after a failed reuse.
C26_Witness ==
    \E p \in Procs :
        /\ IsCreated(p) /\ ReuseFailed(p)
        /\ Len(calls[p]) = 7
        /\ NewSendsOf(p) # {}

----------------------------------------------------------------------------
\* Further claims on the Salesforce messaging handler.

\* C28: an invocation for service number '9999' makes no send request, and
\* when it ends with 200 it has a token and a conversation; an invocation for
\* any other service number that ends with 200 has made exactly one send
\* request, which carried the request text to the conversation resolved by
\* getOrCreateConversation and was accepted; no invocation sends twice; a send
\* that is not accepted is the last call and the result is 500.
C28_SendUnlessFirstOutbound ==
    \A p \in Procs :
        /\ serviceNumber[p] = FirstOutbound =>
            /\ RequestsOf(p, "SendMessage") = {}
            /\ at[p] # "SendMessage"
        /\ Cardinality(RequestsOf(p, "SendMessage")) <= 1
        /\ \A i \in RequestsOf(p, "SendMessage") :
            /\ requests[p][i].arg = [conversationId |-> conversationId[p], text |-> text[p]]
            /\ conversationId[p] \in DOMAIN conversations
            /\ text[p] # Undefined
            /\ i = Len(requests[p])
            /\ Answered(p)
            /\ response[p].statusCode = IF requests[p][i].ok THEN 200 ELSE 500
        /\ (Answered(p) /\ response[p].statusCode = 200) =>
            /\ accessToken[p] # NoAccessToken
            /\ conversationId[p] # NoConversation
            /\ RequestsOf(p, "GetConversation") # {}
            /\ IF serviceNumber[p] = FirstOutbound
               THEN RequestsOf(p, "SendMessage") = {}
               ELSE Cardinality(OkRequestsOf(p, "SendMessage")) = 1
\* C28 (witness): an invocation for '9999' ended with 200 on the stored
\* conversation, which an earlier invocation created, without sending.
C28_Witness ==
    \E p \in Procs :
        /\ Answered(p) /\ response[p].statusCode = 200
        /\ serviceNumber[p] = FirstOutbound
        /\ RequestsOf(p, "CreateConversation") = {}
        /\ conversationId[p] \in DOMAIN conversations
        /\ conversations[conversationId[p]].serviceNumber # FirstOutbound

\* p's call in this step is a request to Salesforce that carries its token.
CallsSalesforce(p) ==
    Requests(p) /\ LastRequest(p).op \in {"CreateConversation", "SendMessage"}

\* C29 (as stated, violated): an invocation that holds a token Salesforce
\* rejects never ends with 200, and no step replaces a cached token by
\* another one.
C29_Original ==
    [][/\ \A p \in Procs :
            (at[p] # "done" /\ at'[p] = "done" /\ accessToken[p] # NoAccessToken
                /\ ~Accepted(accessToken[p])) => response'[p].statusCode = 500
       /\ CachedToken # NoAccessToken => CachedToken' \in {CachedToken, NoAccessToken}]_vars

\* C29: a request to Salesforce with a token it rejects fails, the invocation
\* ends with 500, and that step changes neither the cache nor the tokens
\* issued nor the cache writes under way: nothing is evicted or refreshed. A
\* cache read that returns the item hands out its token, rejected or not. The
\* cached token changes only by TTL expiry of the item or by the settling of a
\* cache write that followed a token request; a failed call of any kind
\* leaves the cache as it was.
C29_RejectedStep ==
    /\ \A p \in Procs :
        /\ (CallsSalesforce(p) /\ ~Accepted(accessToken[p])) =>
            /\ ~LastRequest(p).ok
            /\ at'[p] = "done"
            /\ response'[p].statusCode = 500
        /\ (Requests(p) /\ ~LastRequest(p).ok) => UNCHANGED <<cache, issued, saving>>
        /\ (Requests(p) /\ LastRequest(p).op = "GetToken" /\ LastRequest(p).ok
                /\ CachedToken # NoAccessToken) => accessToken'[p] = CachedToken
    /\ CachedToken' # CachedToken =>
        \/ CachedToken' = NoAccessToken /\ cache' \subseteq cache
        \/ CachedToken' \in saving /\ saving' = saving \ {CachedToken'}
\* A token whose cache write is under way, the cached token and the expired
\* tokens were all issued by Salesforce.
C29_RejectedInv ==
    /\ \A t \in saving : t \in 1 .. issued
    /\ CachedToken \in 0 .. issued
    /\ expired \in 0 .. issued
\* C29 (theorem): a rejected cached token fails the invocations that call
\* Salesforce with it and is neither evicted nor refreshed by their failure.
C29_RejectedTokenStays == []C29_RejectedInv /\ [][C29_RejectedStep]_vars
\* C29 (witness): the cache holds a token Salesforce rejects; an invocation
\* read it from the cache, called Salesforce with it and ended with 500.
C29_Witness ==
    \E p \in Procs :
        /\ CachedToken # NoAccessToken /\ ~Accepted(CachedToken)
        /\ accessToken[p] = CachedToken
        /\ RequestsOf(p, "FetchToken") = {}
        /\ Answered(p) /\ response[p].statusCode = 500
        /\ \E i \in DOMAIN requests[p] :
            requests[p][i].op \in {"CreateConversation", "SendMessage"}

\* p and q are two invocations for one mobile number, each of which created
\* a conversation after a lookup that resolved and found none.
BothCreated(p, q) ==
    /\ p # q
    /\ mobileNumber[p] = mobileNumber[q]
    /\ \A r \in {p, q} :
        /\ OkRequestsOf(r, "GetConversation") # {}
        /\ OkRequestsOf(r, "CreateConversation") # {}

\* C30: two invocations that both created a conversation for one number
\* created distinct ones, both for that number; the table holds at most one
\* record per number, and when both invocations have ended the record, if
\* any, holds the conversationId of one of the two.
C30_RaceInv ==
    /\ \A k \in Mobiles \cup {tokenCacheKey} : Cardinality(CacheItemsOf(k)) <= 1
    /\ \A p, q \in Procs :
        BothCreated(p, q) =>
            /\ conversationId[p] # conversationId[q]
            /\ \A r \in {p, q} :
                /\ conversationId[r] \in DOMAIN conversations
                /\ conversations[conversationId[r]].mobileNumber = mobileNumber[r]
            /\ (Answered(p) /\ Answered(q)) =>
                StoredConversation(mobileNumber[p]) \in
                    {NoConversation, conversationId[p], conversationId[q]}
\* The last write wins: a record write that resolves leaves, for the number,
\* the writer's conversationId, whatever was stored; the stored id changes in
\* no other way than by such a write or by the TTL expiry of the record; a
\* lookup that finds the record hands out the stored id.
C30_RaceStep ==
    /\ \A p \in Procs :
        Requests(p) =>
            /\ (LastRequest(p).op = "SaveConversation" /\ LastRequest(p).ok) =>
                /\ StoredConversation(mobileNumber[p])' = conversationId[p]
                /\ CacheItemsOf(mobileNumber[p])' = {SavedItem(p)}
            /\ (LastRequest(p).op = "GetConversation" /\ LastRequest(p).ok
                    /\ StoredConversation(mobileNumber[p]) # NoConversation) =>
                conversationId'[p] = StoredConversation(mobileNumber[p])
    /\ \A n \in Mobiles :
        StoredConversation(n)' # StoredConversation(n) =>
            \/ StoredConversation(n)' = NoConversation /\ cache' \subseteq cache
            \/ \E p \in Procs :
                /\ Requests(p) /\ LastRequest(p).op = "SaveConversation" /\ LastRequest(p).ok
                /\ mobileNumber[p] = n
\* C30 (theorem): concurrent creations for one number give distinct
\* conversations and the record keeps the id written last.
C30_ConcurrentCreate == []C30_RaceInv /\ [][C30_RaceStep]_vars
\* C30 (witness): two concurrent invocations both missed the lookup, created
\* two conversations and wrote the record; both have ended with 200, and the
\* record holds the id of the second conversation only.
C30_Witness ==
    \E p, q \in Procs :
        /\ BothCreated(p, q)
        /\ \A r \in {p, q} :
            /\ Answered(r) /\ response[r].statusCode = 200
            /\ OkRequestsOf(r, "SaveConversation") # {}
        /\ StoredConversation(mobileNumber[p]) = conversationId[q]
        /\ conversationId[p] < conversationId[q]

----------------------------------------------------------------------------
\* src/StartTaskContactV1/index.mjs: a Salesforce routing event starts a task
\* contact in Amazon Connect.  The handler has one await, the send of the
\* StartTaskContactCommand.

MaxTasks == 2
EventTypes == {"CREATE", "UPDATE", "create"}
WorkItemIds == {"500A"}
ClientTokens == {"uuid-1", "uuid-2"}

\* The strings that arrive as event.body.
JsonTexts ==
    {"{\"eventType\":\"CREATE\",\"pendingServiceRouting\":{\"WorkItemId\":\"500A\"}}",
     "{\"eventType\":\"CREATE\"}",
     "{\"eventType\":\"UPDATE\",\"pendingServiceRouting\":{\"WorkItemId\":\"500A\"}}",
     "{\"eventType\":\"create\"}",
     "{}",
     "null",
     "\"CREATE\"",
     "{\"eventType\":\"CREATE\"",
     ""}
SyntaxError == [type |-> "SyntaxError"]
\* JSON.parse of the strings above.
JSON_parse(t) ==
    CASE t = "{\"eventType\":\"CREATE\",\"pendingServiceRouting\":{\"WorkItemId\":\"500A\"}}"
            -> JsObject("CREATE", "500A")
      [] t = "{\"eventType\":\"CREATE\"}" -> JsObject("CREATE", Undefined)
      [] t = "{\"eventType\":\"UPDATE\",\"pendingServiceRouting\":{\"WorkItemId\":\"500A\"}}"
            -> JsObject("UPDATE", "500A")
      [] t = "{\"eventType\":\"create\"}" -> JsObject("create", Undefined)
      [] t = "{}" -> JsObject(Undefined, Undefined)
      [] t = "null" -> JsNull
      [] t = "\"CREATE\"" -> JsString("CREATE")
      [] OTHER -> SyntaxError

\* event.body: a string, an object, or nothing.
EventBodies ==
    {JsString(t) : t \in JsonTexts}
    \cup {JsObject(e, w) : e \in EventTypes \cup {Undefined}, w \in WorkItemIds \cup {Undefined}}
    \cup {JsNull, JsUndefined}
\* event.attributes: nothing, or an object that sets SF_EventType.
EventAttributes == {JsUndefined, [type |-> "object", sfEventType |-> "Forged"]}

\* Line 14.
ConfigurationError == [statusCode |-> 0, body |-> "Configuration Error"]
\* Line 24.
InvalidJson == [statusCode |-> 400, body |-> "Invalid JSON in body"]

\* Line 21: a string is parsed, anything else is taken as it is.
Parsed(b) == IF b.type = "string" THEN JSON_parse(b.text) ELSE b
\* Lines 29-37: parsedBody?.eventType and parsedBody?.pendingServiceRouting
\* .WorkItemId; a string, null and undefined have neither.
extractedData(v) ==
    IF v.type = "object"
    THEN [eventType |-> v.eventType, WorkItemId |-> v.WorkItemId]
    ELSE [eventType |-> Undefined, WorkItemId |-> Undefined]
\* Lines 43-50: the attributes of the event override those of the handler
\* (sfEventType is SF_EventType, sfWorkItemId is SF_WorkItemId).
taskAttributes(d, a) ==
    [sfEventType |-> IF a.type = "object" THEN a.sfEventType
                      ELSE IF Falsy(d.eventType) THEN "Unknown" ELSE d.eventType,
     sfWorkItemId |-> IF Falsy(d.WorkItemId) THEN "" ELSE d.WorkItemId]
\* Lines 53-60.
input(d, a, u) ==
    [Name |-> d.WorkItemId, Description |-> d.eventType,
     Attributes |-> taskAttributes(d, a), ClientToken |-> u]
\* Line 62, with a comparison that takes every event type.
Creates_AnyEventType(d) == d.eventType # Undefined
\* Line 62.


Creates(d) == d.eventType = "CREATE"

\* The variables of the two messaging handlers, and all that this handler
\* never touches.
handlerV2 == <<environments, customers, previousRun, table, contacts, connections, pc,
               locals, result, calls>>
messaging == <<cache, issued, expired, conversations, saving, invocations, at, mobileNumber, text,
               serviceNumber, accessToken, conversationId, response, requests>>
besidesTask == <<handlerV2, messaging, agentwork, bubble, transcript, relay>>

TaskEnds(r) ==
    /\ taskAt' = "done"
    /\ returned' = r
\* Lines 9-69: an invocation, up to its await or its end.
handler(b, a) ==
    /\ taskAt \in {"idle", "done"}
    /\ eventBody' = b
    /\ attributes' = a
    /\ commands' = <<>>
    /\ IF ~configured
       THEN /\ TaskEnds(ConfigurationError)
            /\ parsedBody' = JsUndefined
       ELSE IF Parsed(b) = SyntaxError
       THEN /\ TaskEnds(InvalidJson)
            /\ parsedBody' = JsUndefined
       ELSE /\ parsedBody' = Parsed(b)
            /\ IF Creates(extractedData(Parsed(b)))
               THEN /\ taskAt' = "StartTaskContact"
                    /\ returned' = Pending
               ELSE TaskEnds(ReturnsNothing)
    /\ UNCHANGED <<besidesTask, configured, taskContacts>>

\* The command the invocation sends.
Command(u, ok) ==
    [input |-> input(extractedData(parsedBody), attributes, u), ok |-> ok]
\* Lines 76-87: the send resolves and Connect has a new task contact; the
\* handler drops the value StartTaskContact returns (line 65).
StartTaskContactOk ==
    /\ taskAt = "StartTaskContact"
    /\ taskContacts < MaxTasks
    /\ taskContacts' = taskContacts + 1
    /\ \E u \in ClientTokens : commands' = Append(commands, Command(u, TRUE))
    /\ TaskEnds(ReturnsNothing)
    /\ UNCHANGED <<besidesTask, configured, eventBody, attributes, parsedBody>>
\* Lines 89-95: the send throws; StartTaskContact catches and returns a 500
\* object that the handler drops as well.
StartTaskContactFail ==
    /\ taskAt = "StartTaskContact"
    /\ \E u \in ClientTokens : commands' = Append(commands, Command(u, FALSE))
    /\ TaskEnds(ReturnsNothing)
    /\ UNCHANGED <<besidesTask, configured, taskContacts, eventBody, attributes, parsedBody>>

\* The function is deployed with its environment variables or without.
TaskInit ==
    /\ \E c \in BOOLEAN : TaskIdle(c)
    /\ InboundIdle
    /\ SalesforceIdle({})
    /\ AgentWorkIdle
    /\ BubbleIdle
    /\ TranscriptIdle
    /\ RelayIdle
TaskNext ==
    \/ \E b \in EventBodies, a \in EventAttributes : handler(b, a)
    \/ StartTaskContactOk
    \/ StartTaskContactFail
TaskSpec == TaskInit /\ [][TaskNext]_vars

----------------------------------------------------------------------------
\* Claims on StartTaskContactV1.

TaskEnded == taskAt = "done"
\* The body of the event is a string that is not valid JSON.
NotJson == eventBody.type = "string" /\ JSON_parse(eventBody.text) = SyntaxError
\* The eventType of the parsed body of the event is exactly "CREATE".
IsCreateEvent ==
    LET v == IF eventBody.type = "string" THEN JSON_parse(eventBody.text) ELSE eventBody
    IN  v.type = "object" /\ v.eventType = "CREATE"

\* C27 (as stated): an invocation that ended sent one StartTaskContactCommand
\* if the eventType of the parsed body is "CREATE", and none otherwise.
C27_Original ==
    TaskEnded => (Len(commands) = 1 <=> IsCreateEvent) /\ Len(commands) <= 1

\* C27: with INSTANCE_ID and CONTACT_FLOW_ID set, an invocation sends a
\* StartTaskContactCommand if and only if the eventType of the parsed body is
\* exactly "CREATE", and then one; a string body that is not valid JSON gives
\* the 400 result and no command.  Without the two variables it throws and
\* sends nothing, whatever the event.  An invocation that got past parsing
\* returns nothing, whether it sent a command or not and whether the send
\* resolved or threw.
C27_TaskInv ==
    /\ Len(commands) <= 1
    /\ commands # <<>> => TaskEnded /\ configured /\ IsCreateEvent
    /\ taskAt = "StartTaskContact" => configured /\ IsCreateEvent
    /\ TaskEnded =>
        /\ ~configured => returned = ConfigurationError /\ commands = <<>>
        /\ (configured /\ NotJson) => returned = InvalidJson /\ commands = <<>>
        /\ (configured /\ ~NotJson) => returned = ReturnsNothing
        /\ (configured /\ IsCreateEvent) =>
            /\ Len(commands) = 1
            /\ commands[1].input.Description = "CREATE"
        /\ (configured /\ ~IsCreateEvent) => commands = <<>>
\* Connect gets a task contact only by a command that resolved, one per
\* invocation.
C27_TaskStep ==
    taskContacts' # taskContacts =>
        /\ taskContacts' = taskContacts + 1
        /\ taskAt = "StartTaskContact" /\ taskAt' = "done"
        /\ commands = <<>> /\ Len(commands') = 1 /\ commands'[1].ok
C27_StartsTaskOnCreate == []C27_TaskInv /\ [][C27_TaskStep]_vars
\* C27 (witness): after a task contact was started, an invocation whose
\* eventType is "create" has ended without a command.
C27_Witness ==
    /\ TaskEnded /\ configured
    /\ taskContacts = 1
    /\ ~IsCreateEvent /\ ~NotJson
    /\ parsedBody.type = "object" /\ parsedBody.eventType = "create"
    /\ commands = <<>>

----------------------------------------------------------------------------
\* src/agentforce/CreateAgentWorkV1/index.mjs: a Connect flow asks for an
\* AgentWork record in Salesforce and the reporting task is stopped.  Every
\* await of the handler is one step that resolves or throws.

MaxAgentWorks == 2
\* Lines 259-263: each field is present in the event or not.
Details ==
    [UserId : {"005J", Undefined}, WorkItemId : {"0MwJ", Undefined},
     PendingServiceRoutingId : {"0JRJ", Undefined}, ServiceChannelId : {"0N9J"},
     ReportingTaskId : TaskIds \cup {Undefined}]
\* Line 297.
Routable(d) == ~Falsy(d.UserId) /\ ~Falsy(d.WorkItemId) /\ ~Falsy(d.PendingServiceRoutingId)
\* Lines 298-303.
payload(d) ==
    [ServiceChannelId |-> d.ServiceChannelId, UserId |-> d.UserId, WorkItemId |-> d.WorkItemId,
     PendingServiceRoutingId |-> d.PendingServiceRoutingId]
\* Lines 318-326.
Success == [statusCode |-> 200, body |-> "Success"]
\* Lines 330-336, with the message of the error.
ErrorProcessing(m) == [statusCode |-> 500, body |-> m]

besidesAgentWork == <<handlerV2, messaging, task, bubble, transcript, relay>>
Attempt(c) == attempts' = Append(attempts, c)
WorkEnds(r) ==
    /\ workAt' = "done"
    /\ answer' = r

\* Lines 256-286: an invocation reads the event and asks for a token.
CreateAgentWork(d) ==
    /\ workAt \in {"idle", "done"}
    /\ contactData' = d
    /\ workAt' = "getSalesforceAccessToken"
    /\ granted' = FALSE
    /\ queryResults' = FALSE
    /\ agentWorkResponse' = FALSE
    /\ attempts' = <<>>
    /\ answer' = Pending
    /\ UNCHANGED <<besidesAgentWork, agentWorks, openTasks>>
\* Lines 113-161, 286-292: Salesforce grants the token.
getSalesforceAccessTokenOk ==
    /\ workAt = "getSalesforceAccessToken"
    /\ granted' = TRUE
    /\ workAt' = "executeSoqlQuery"
    /\ Attempt(Call("Authenticate", Undefined, ""))
    /\ UNCHANGED <<besidesAgentWork, agentWorks, openTasks, contactData, queryResults,
                   agentWorkResponse, answer>>
\* Lines 106, 149, 155, 328-336: signing the JWT throws, or Salesforce
\* refuses, or the request fails.
getSalesforceAccessTokenFail ==
    /\ workAt = "getSalesforceAccessToken"
    /\ Attempt(Call("Authenticate", Undefined, "Authentication failed"))
    /\ WorkEnds(ErrorProcessing("Authentication failed"))
    /\ UNCHANGED <<besidesAgentWork, agentWorks, openTasks, contactData, granted, queryResults,
                   agentWorkResponse>>
\* When the query has resolved: lines 296-306, or lines 318-326 when a
\* field is missing.
AfterQuery ==
    IF Routable(contactData)
    THEN workAt' = "callSalesforceApi" /\ answer' = answer
    ELSE WorkEnds(Success)
\* Lines 166-204, 292-297.
executeSoqlQueryOk ==
    /\ workAt = "executeSoqlQuery"
    /\ queryResults' = TRUE
    /\ AfterQuery
    /\ Attempt(Call("Query", Undefined, ""))
    /\ UNCHANGED <<besidesAgentWork, agentWorks, openTasks, contactData, granted, agentWorkResponse>>
\* Lines 193, 199, 328-336.
executeSoqlQueryFail ==
    /\ workAt = "executeSoqlQuery"
    /\ Attempt(Call("Query", Undefined, "SOQL query failed"))
    /\ WorkEnds(ErrorProcessing("SOQL query failed"))
    /\ UNCHANGED <<besidesAgentWork, agentWorks, openTasks, contactData, granted, queryResults,
                   agentWorkResponse>>
\* Lines 209-254, 306-314: Salesforce creates the AgentWork record.
callSalesforceApiOk ==
    /\ workAt = "callSalesforceApi"
    /\ Len(agentWorks) < MaxAgentWorks
    /\ agentWorks' = Append(agentWorks, payload(contactData))
    /\ agentWorkResponse' = TRUE
    /\ workAt' = "StopContact"
    /\ Attempt(Call("CreateAgentWork", payload(contactData), ""))
    /\ UNCHANGED <<besidesAgentWork, openTasks, contactData, granted, queryResults, answer>>
\* Lines 240, 246, 328-336.
callSalesforceApiFail ==
    /\ workAt = "callSalesforceApi"
    /\ Attempt(Call("CreateAgentWork", payload(contactData), "API call failed"))
    /\ WorkEnds(ErrorProcessing("API call failed"))
    /\ UNCHANGED <<besidesAgentWork, agentWorks, openTasks, contactData, granted, queryResults,
                   agentWorkResponse>>
\* Lines 350-364, 314-326: Connect stops the task; the handler drops the
\* value StopContact returns.
StopContactOk ==
    /\ workAt = "StopContact"
    /\ contactData.ReportingTaskId \in TaskIds
    /\ openTasks' = openTasks \ {contactData.ReportingTaskId}
    /\ Attempt(Call("StopContact", contactData.ReportingTaskId, ""))
    /\ WorkEnds(Success)
    /\ UNCHANGED <<besidesAgentWork, agentWorks, contactData, granted, queryResults,
                   agentWorkResponse>>
\* Lines 366-372, 314-326: the send throws; StopContact catches and returns
\* a 500 object, which the handler drops as well.
StopContactFail ==
    /\ workAt = "StopContact"
    /\ Attempt(Call("StopContact", contactData.ReportingTaskId, "Connect error"))
    /\ WorkEnds(Success)
    /\ UNCHANGED <<besidesAgentWork, agentWorks, openTasks, contactData, granted, queryResults,
                   agentWorkResponse>>

AgentWorkInit ==
    /\ AgentWorkIdle
    /\ TaskIdle(TRUE)
    /\ InboundIdle
    /\ SalesforceIdle({})
    /\ BubbleIdle
    /\ TranscriptIdle
    /\ RelayIdle
AgentWorkNext ==
    \/ \E d \in Details : CreateAgentWork(d)
    \/ getSalesforceAccessTokenOk \/ getSalesforceAccessTokenFail
    \/ executeSoqlQueryOk \/ executeSoqlQueryFail
    \/ callSalesforceApiOk \/ callSalesforceApiFail
    \/ StopContactOk \/ StopContactFail
AgentWorkSpec == AgentWorkInit /\ [][AgentWorkNext]_vars

----------------------------------------------------------------------------
\* Claims on CreateAgentWorkV1.

WorkEnded == workAt = "done"
FailedAttempts == {i \in DOMAIN attempts : ~attempts[i].ok}
\* C21 (as stated): an invocation in which a call failed (authentication,
\* query, AgentWork creation or the Connect call) has not thrown and ended
\* with statusCode 500 and the message of the error, not with 'Success'.
C21_Original ==
    (WorkEnded /\ FailedAttempts # {}) =>
        /\ answer.statusCode = 500
        /\ \E i \in FailedAttempts : answer.body = attempts[i].err

----------------------------------------------------------------------------
\* src/unnamed/part_000: the custom text message bubble, a component whose
\* getter textContent and click handler handleButtonClick run to completion
\* one at a time.

MaxClicks == 2

Button(l, v) == [label |-> l, value |-> v]
\* Lines 71-77.
MenuGroup ==
    [id |-> "group-menu",
     buttons |-> <<Button("Locations", "Question about practice locations"),
                   Button("Appointments", "Question about appointments"),
                   Button("Accounts", "Account or billing enquiry"),
                   Button("Results", "Question about results")>>,
     isFirst |-> TRUE]
\* Lines 149-162, 174.
SubmenuGroup ==
    [id |-> "group-locations-submenu",
     buttons |-> <<Button("Eastern Suburbs", "PRP Practices in Eastern Suburbs region"),
                   Button("North Shore", "PRP Practices in North Shore / Northern Sydney region"),
                   Button("Regional NSW", "PRP Practices in Regional NSW region"),
                   Button("Western Sydney", "PRP Practices in Western Sydney region"),
                   Button("Northern Beaches", "PRP Practices in Northern Beaches region"),
                   Button("Illawarra", "PRP Practices in Illawarra region"),
                   Button("North West Sydney", "PRP Practices in North West Sydney region"),
                   Button("Central Coast", "PRP Practices in Central Coast region"),
                   Button("Hunter Region", "PRP Practices in Newcastle / Hunter region")>>,
     prefaceText |-> "Please select one of the regions below:"]

\* The values of entryPayload.abstractMessage.staticContent.text.
Texts ==
    {"{\"type\":\"menu\",\"message\":\"How can we help?\"}",
     "{\"type\":\"menu\"}",
     "{\"type\":\"locations\",\"locations\":[\"Bondi\",\" Manly \"],\"message\":\"Pick one!\"}",
     "{\"type\":\"locations\",\"locations\":[\"  \",null]}",
     "{\"type\":\"locations\",\"locations\":\"Bondi\"}",
     "{\"type\":\"locations\",\"locations\":[\"Locations\"]}",
     "{\"type\":\"info\",\"message\":\"**Closed** today!\"}",
     "Hello **there**!",
     "[PRP](https://prp.example)",
     "42"}
NotArray == <<"not an array">>
ParsedObject(t, l, m) == [type |-> t, locations |-> l, message |-> m]
\* Line 66: JSON.parse of the texts above; "42" is JSON and not an object.
ParsedText(t) ==
    CASE t = "{\"type\":\"menu\",\"message\":\"How can we help?\"}"
            -> ParsedObject("menu", NotArray, "How can we help?")
      [] t = "{\"type\":\"menu\"}" -> ParsedObject("menu", NotArray, Undefined)
      [] t = "{\"type\":\"locations\",\"locations\":[\"Bondi\",\" Manly \"],\"message\":\"Pick one!\"}"
            -> ParsedObject("locations", <<"Bondi", " Manly ">>, "Pick one!")
      [] t = "{\"type\":\"locations\",\"locations\":[\"  \",null]}"
            -> ParsedObject("locations", <<"  ", Undefined>>, Undefined)
      [] t = "{\"type\":\"locations\",\"locations\":\"Bondi\"}"
            -> ParsedObject("locations", NotArray, Undefined)
      [] t = "{\"type\":\"locations\",\"locations\":[\"Locations\"]}"
            -> ParsedObject("locations", <<"Locations">>, Undefined)
      [] t = "{\"type\":\"info\",\"message\":\"**Closed** today!\"}"
            -> ParsedObject("info", NotArray, "**Closed** today!")
      [] t = "42" -> [type |-> "number"]
      [] OTHER -> SyntaxError
\* Line 67.
IsObject(v) == v.type \notin {"number", "SyntaxError"}
\* Lines 85, 87: String(item).trim() of the items above.
Trim(l) ==
    CASE l = " Manly " -> "Manly"
      [] l = "  " -> ""
      [] OTHER -> l
\* Lines 84-92.
RECURSIVE LocationButtons(_)
LocationButtons(ls) ==
    IF ls = <<>> THEN <<>>
    ELSE LET l == Head(ls)
         IN  IF l = Undefined \/ Trim(l) = ""
             THEN LocationButtons(Tail(ls))
             ELSE <<Button(Trim(l), "Information for location " \o Trim(l))>>
                  \o LocationButtons(Tail(ls))
\* Line 93.
LocationsGroup(ls) == [id |-> "group-locations", buttons |-> LocationButtons(ls)]
\* Lines 111-121: bold, exclamation marks and links of the texts of the
\* model.
Formatted(t) ==
    CASE t = "Pick one!" -> "Pick one."
      [] t = "**Closed** today!" -> "<strong>Closed</strong> today."
      [] t = "Hello **there**!" -> "Hello <strong>there</strong>."
      [] t = "[PRP](https://prp.example)" -> "<a href=\"https://prp.example\" target=\"_blank\">PRP</a>"
      [] OTHER -> t

\* conversationEntry as the parent component sets it: an entryPayload that
\* is not JSON (or is null), one without abstractMessage.staticContent, or
\* one with a text.
Entries ==
    {[kind |-> "invalid"], [kind |-> "empty"]} \cup {[kind |-> "static", text |-> t] : t \in Texts}

besidesBubble == <<handlerV2, messaging, task, agentwork, transcript, relay>>

\* Line 33: the parent component sets the entry.
SetConversationEntry(e) ==
    /\ conversationEntry' = e
    /\ UNCHANGED <<besidesBubble, showCtas, ctaGroups, buttons, rendered, posted, clicks>>

\* Line 52, always true.
initializingFromPayload_Always == TRUE
\* Line 52.
initializingFromPayload == ~showCtas /\ ctaGroups = <<>>
\* Lines 68-96: the groups after the text was parsed to v.
GroupsFrom(v) ==
    IF ~initializingFromPayload THEN ctaGroups
    ELSE IF v.type = "menu" THEN <<MenuGroup>>
    ELSE IF v.type = "locations" /\ v.locations # NotArray
    THEN IF LocationButtons(v.locations) # <<>> THEN <<LocationsGroup(v.locations)>> ELSE <<>>
    ELSE <<>>
\* Lines 47-132: the getter is evaluated.
textContent ==
    /\ IF conversationEntry.kind \in {"undefined", "invalid"}
       THEN \* lines 126-131
            /\ showCtas' = FALSE
            /\ buttons' = <<>>
            /\ rendered' = ""
            /\ ctaGroups' = ctaGroups
       ELSE IF conversationEntry.kind = "empty"
       THEN \* lines 53-56, 125
            /\ rendered' = ""
            /\ UNCHANGED <<showCtas, ctaGroups, buttons>>
       ELSE LET staticText == conversationEntry.text
                parsed == ParsedText(staticText)
            IN  /\ ctaGroups' = IF IsObject(parsed) THEN GroupsFrom(parsed) ELSE ctaGroups
                /\ showCtas' = IF IsObject(parsed) /\ initializingFromPayload
                               THEN GroupsFrom(parsed) # <<>>
                               ELSE showCtas
                /\ rendered' = IF IsObject(parsed) /\ ~Falsy(parsed.message)
                               THEN Formatted(parsed.message)
                               ELSE Formatted(staticText)
                /\ buttons' = buttons
    /\ UNCHANGED <<besidesBubble, conversationEntry, posted, clicks>>

\* The buttons on screen (lines 10-12), and a click that carries neither
\* a label nor a value.
ClickEvents ==
    IF showCtas
    THEN UNION {{ctaGroups[i].buttons[j] : j \in DOMAIN ctaGroups[i].buttons} :
                i \in DOMAIN ctaGroups}
         \cup {Button(Undefined, Undefined)}
    ELSE {}
\* Line 143, for the labels and values of the model: the label is
\* 'locations' in lower case, or the value in lower case includes it.
IsLocations(ev) ==
    \/ ev.label \in {"Locations"}
    \/ ev.value \in {"Question about practice locations", "Information for location Locations"}
\* Line 170, never true.
hasLocations_Never == FALSE
\* Line 170.
hasLocations == \E i \in DOMAIN ctaGroups : ctaGroups[i].id = "group-locations-submenu"
\* Line 182: value || label || 'unknown'.
buttonType(ev) ==
    IF ~Falsy(ev.value) THEN ev.value ELSE IF ~Falsy(ev.label) THEN ev.label ELSE "unknown"
\* Lines 138-183, 207-222: a click on a button.
handleButtonClick(ev) ==
    /\ Len(clicks) < MaxClicks
    /\ clicks' = Append(clicks, ev)
    /\ IF IsLocations(ev)
       THEN /\ ctaGroups' = IF hasLocations THEN ctaGroups ELSE Append(ctaGroups, SubmenuGroup)
            /\ showCtas' = (ctaGroups' # <<>>)
            /\ posted' = posted
       ELSE /\ posted' = Append(posted, buttonType(ev))
            /\ UNCHANGED <<showCtas, ctaGroups>>
    /\ UNCHANGED <<besidesBubble, buttons, conversationEntry, rendered>>

BubbleInit ==
    /\ BubbleIdle
    /\ AgentWorkIdle
    /\ TaskIdle(TRUE)
    /\ InboundIdle
    /\ SalesforceIdle({})
    /\ TranscriptIdle
    /\ RelayIdle
BubbleNext ==
    \/ \E e \in Entries : SetConversationEntry(e)
    \/ textContent
    \/ \E ev \in ClickEvents : handleButtonClick(ev)
BubbleSpec == BubbleInit /\ [][BubbleNext]_vars

----------------------------------------------------------------------------
\* Claims on the custom text message bubble.

SubmenuGroups == {i \in DOMAIN ctaGroups : ctaGroups[i].id = "group-locations-submenu"}
LocationsClicks == {i \in DOMAIN clicks : IsLocations(clicks[i])}
\* C22: ctaGroups holds at most one group with id
\* 'group-locations-submenu', and holds one once "Locations" was clicked.
C22_OneSubmenu ==
    /\ Cardinality(SubmenuGroups) <= 1
    /\ LocationsClicks # {} => Cardinality(SubmenuGroups) = 1
\* C22 (witness): "Locations" was clicked twice and one submenu group
\* follows the menu group.
C22_Witness ==
    /\ Cardinality(LocationsClicks) = 2
    /\ Len(ctaGroups) = 2
    /\ ctaGroups[1].id = "group-menu"
    /\ ctaGroups[2] = SubmenuGroup

\* A step that is not a click: the entry is set or textContent is evaluated.
NoClick == clicks' = clicks
\* The groups that textContent sets from a payload.
PayloadGroups == {<<MenuGroup>>} \cup {<<LocationsGroup(ParsedText(t).locations)>> :
                    t \in {x \in Texts : ParsedText(x).type = "locations"
                                            /\ ParsedText(x).locations # NotArray}}
\* C23: a step that is not a click changes ctaGroups only while showCtas is
\* false and ctaGroups is empty, and then to one group of the payload with
\* showCtas true; once ctaGroups holds a group, no such step changes
\* ctaGroups, whatever the entry.
C23_TextContentStep ==
    NoClick =>
        /\ ctaGroups # <<>> => ctaGroups' = ctaGroups
        /\ ctaGroups' # ctaGroups =>
            /\ ~showCtas /\ ctaGroups = <<>>
            /\ ctaGroups' \in PayloadGroups
            /\ showCtas'
        /\ showCtas' /\ ~showCtas => ctaGroups = <<>> /\ ctaGroups' # <<>>
C23_InitialisesOnce == [][C23_TextContentStep]_vars
\* C23 (witness): textContent was evaluated for a locations payload after
\* the menu and its submenu were set (it returned the message of that
\* payload): both groups are still there.
C23_Witness ==
    /\ Len(ctaGroups) = 2
    /\ ctaGroups[1] = MenuGroup
    /\ ctaGroups[2] = SubmenuGroup
    /\ showCtas
    /\ conversationEntry.kind = "static"
    /\ ParsedText(conversationEntry.text).type = "locations"
    /\ rendered = "Pick one."

----------------------------------------------------------------------------
\* src/unnamed/part_005, fetchFullTranscript (lines 414-468): the pages of a
\* conversation are fetched one by one, each fetch is one step that resolves
\* or throws; the sort and the return follow the last page in the same step.

MaxPages == 2
MaxPageSize == 2
\* An absent (or falsy) time field; times are positive.
NoTime == 0
Entry(e, s) == [entryTime |-> e, serverReceivedTimestamp |-> s]
\* Entries with both times, with serverReceivedTimestamp only, and with
\* neither.
EntryKinds == {Entry(1, 3), Entry(NoTime, 1), Entry(NoTime, 3), Entry(NoTime, NoTime)}
NextPageUrl == "/connect/conversation/c/entries?page=next"
\* The responses of the entries endpoint: with or without
\* conversationEntries, with or without nextPageUrl.
PageResponses ==
    [conversationEntries : UNION {[1 .. n -> EntryKinds] : n \in 0 .. MaxPageSize},
     nextPageUrl : {NextPageUrl, NoUrl}]
    \cup [nextPageUrl : {NextPageUrl, NoUrl}]
\* Lines 433-438.
EntriesOf(page) ==
    IF "conversationEntries" \in DOMAIN page THEN page.conversationEntries ELSE <<>>

\* Lines 461-462: the time an entry is sorted by; NoTime stands for the
\* invalid Date of an entry with neither field.
Time(a) == IF a.entryTime # NoTime THEN a.entryTime ELSE a.serverReceivedTimestamp
\* Line 463 with the order reversed.
After_NewestFirst(a, b) == Time(a) # NoTime /\ Time(b) # NoTime /\ Time(b) - Time(a) > 0
\* Line 463: timeA - timeB > 0; with an invalid Date the difference is NaN,
\* which sort takes as 0.
After(a, b) == Time(a) # NoTime /\ Time(b) # NoTime /\ Time(a) - Time(b) > 0
\* The comparator orders the entries consistently: no entry compares equal
\* to two entries that differ.
Consistent(s) ==
    \/ \A i \in DOMAIN s : Time(s[i]) # NoTime
    \/ \A i, j \in DOMAIN s : ~After(s[i], s[j])
\* Array.prototype.sort with a consistent comparator is a stable sort: a
\* goes behind the entries that are not after it.
RECURSIVE Insert(_, _)
Insert(a, s) ==
    IF s = <<>> THEN <<a>>
    ELSE IF After(s[Len(s)], a)
    THEN Append(Insert(a, SubSeq(s, 1, Len(s) - 1)), s[Len(s)])
    ELSE Append(s, a)
RECURSIVE StableSort(_)
StableSort(s) ==
    IF s = <<>> THEN <<>> ELSE Insert(s[Len(s)], StableSort(SubSeq(s, 1, Len(s) - 1)))
RECURSIVE Permutations(_)
Permutations(s) ==
    IF s = <<>> THEN {<<>>}
    ELSE UNION {{<<s[i]>> \o r : r \in Permutations(SubSeq(s, 1, i - 1) \o SubSeq(s, i + 1, Len(s)))} :
                i \in DOMAIN s}
\* Line 460: with a comparator that is not consistent the order that sort
\* leaves is implementation-defined.
SortOutcomes(s) == IF Consistent(s) THEN {StableSort(s)} ELSE Permutations(s)

besidesTranscript == <<handlerV2, messaging, task, agentwork, bubble, relay>>

\* Lines 421-447, and 455-467 after the last page: a page arrives.
FetchPageOk(page) ==
    /\ transcriptAt = "loop"
    /\ pageCount < MaxPages
    /\ pageCount' = pageCount + 1
    /\ served' = Append(served, page)
    /\ allEntries' = allEntries \o EntriesOf(page)
    /\ nextUrl' = page.nextPageUrl
    /\ IF page.nextPageUrl = NoUrl
       THEN /\ fullTranscript' \in SortOutcomes(allEntries')
            /\ transcriptAt' = "returned"
       ELSE UNCHANGED <<fullTranscript, transcriptAt>>
    /\ UNCHANGED besidesTranscript
\* Lines 449-452: the fetch of a page throws, and so does the call.
FetchPageFail ==
    /\ transcriptAt = "loop"
    /\ pageCount < MaxPages
    /\ pageCount' = pageCount + 1
    /\ transcriptAt' = "thrown"
    /\ UNCHANGED <<besidesTranscript, nextUrl, allEntries, served, fullTranscript>>

TranscriptInit ==
    /\ TranscriptIdle
    /\ RelayIdle
    /\ BubbleIdle
    /\ AgentWorkIdle
    /\ TaskIdle(TRUE)
    /\ InboundIdle
    /\ SalesforceIdle({})
TranscriptNext ==
    \/ \E page \in PageResponses : FetchPageOk(page)
    \/ FetchPageFail
TranscriptSpec == TranscriptInit /\ [][TranscriptNext]_vars

----------------------------------------------------------------------------
\* Claims on fetchFullTranscript.

\* The entries of the pages served, page after page.
RECURSIVE EntriesServed(_)
EntriesServed(ps) ==
    IF ps = <<>> THEN <<>>
    ELSE EntriesServed(SubSeq(ps, 1, Len(ps) - 1)) \o EntriesOf(ps[Len(ps)])
Occurrences(s, a) == Cardinality({i \in DOMAIN s : s[i] = a})
\* s holds the entries of t, each as often as t does.
SameEntries(s, t) ==
    /\ Len(s) = Len(t)
    /\ \A a \in EntryKinds : Occurrences(s, a) = Occurrences(t, a)
TimeOf(a) == IF a.entryTime # NoTime THEN a.entryTime ELSE a.serverReceivedTimestamp
Timed(a) == TimeOf(a) # NoTime
OldestFirst(s) ==
    \A i, j \in DOMAIN s : (i < j /\ Timed(s[i]) /\ Timed(s[j])) => TimeOf(s[i]) <= TimeOf(s[j])
\* The entries of s with time k, in their order in s.
RECURSIVE AtTime(_, _)
AtTime(s, k) ==
    IF s = <<>> THEN <<>>
    ELSE IF TimeOf(Head(s)) = k THEN <<Head(s)>> \o AtTime(Tail(s), k) ELSE AtTime(Tail(s), k)
Returned == transcriptAt = "returned"

----------------------------------------------------------------------------
\* src/unnamed/part_002, lines 155-294: the outbound SMS relay.  An SNS
\* event carries one streamed chat event; for an agent's message the
\* customer's number is looked up and the message is posted to the SMS
\* provider.  Each await is one step that resolves or throws.

MaxSms == 2
NoNumber == "null"
\* Lines 170-176: an event without Records, one whose Sns.Message is not
\* JSON, and the streamed events.
SnsEvents ==
    {[kind |-> "noRecords"], [kind |-> "notJson"]}
    \cup [kind : {"json"}, Type : {"MESSAGE", "EVENT", "ATTACHMENT", Undefined},
          ParticipantRole : {"AGENT", "CUSTOMER", "SYSTEM", Undefined},
          Content : {"hello"}]
\* Line 180, without the test of the role.
Relays_AnyRole(m) == m.Type = "MESSAGE"
\* Line 180.
Relays(m) == m.Type = "MESSAGE" /\ m.ParticipantRole = "AGENT"
\* Line 189.
ErrorProcessingMessage == [statusCode |-> 500, body |-> "Error processing message"]
\* Lines 255-258.
postData(n, c) == [destination |-> n, content |-> c]

besidesRelay == <<handlerV2, messaging, task, agentwork, bubble, transcript>>
RelayEnds(r) ==
    /\ relayAt' = "done"
    /\ relayed' = r
\* Lines 164-191: an invocation, up to its first await or its end.
RelayHandler(e) ==
    /\ relayAt \in {"idle", "done"}
    /\ snsEvent' = e
    /\ customerNumber' = Undefined
    /\ smsRequests' = <<>>
    /\ IF e.kind # "json"
       THEN RelayEnds(ErrorProcessingMessage)
       ELSE IF Relays(e)
       THEN relayAt' = "getOriginatingNumber" /\ relayed' = Pending
       ELSE RelayEnds(ReturnsNothing)
    /\ UNCHANGED <<besidesRelay, delivered>>
\* Lines 194-213, 182-185: the query resolves with the number of the first
\* item, or with no item.
getOriginatingNumberOk(n) ==
    /\ relayAt = "getOriginatingNumber"
    /\ customerNumber' = n
    /\ relayAt' = "makeApiRequest"
    /\ UNCHANGED <<besidesRelay, delivered, snsEvent, smsRequests, relayed>>
\* Lines 206, 187-190: the query throws.
getOriginatingNumberFail ==
    /\ relayAt = "getOriginatingNumber"
    /\ RelayEnds(ErrorProcessingMessage)
    /\ UNCHANGED <<besidesRelay, delivered, snsEvent, customerNumber, smsRequests>>
\* Lines 254-288, 221-236: the provider accepts the POST; the handler drops
\* what SendOutboundMessage returns and ends without a value.
makeApiRequestOk ==
    /\ relayAt = "makeApiRequest"
    /\ Len(delivered) < MaxSms
    /\ delivered' = Append(delivered, postData(customerNumber, snsEvent.Content))
    /\ smsRequests' = Append(smsRequests, [body |-> postData(customerNumber, snsEvent.Content),
                                          ok |-> TRUE])
    /\ RelayEnds(ReturnsNothing)
    /\ UNCHANGED <<besidesRelay, snsEvent, customerNumber>>
\* Lines 278-280, 290-293, 237-250: the POST fails or is refused;
\* SendOutboundMessage catches, and the handler ends without a value.
makeApiRequestFail ==
    /\ relayAt = "makeApiRequest"
    /\ smsRequests' = Append(smsRequests, [body |-> postData(customerNumber, snsEvent.Content),
                                          ok |-> FALSE])
    /\ RelayEnds(ReturnsNothing)
    /\ UNCHANGED <<besidesRelay, delivered, snsEvent, customerNumber>>

RelayInit ==
    /\ RelayIdle
    /\ TranscriptIdle
    /\ BubbleIdle
    /\ AgentWorkIdle
    /\ TaskIdle(TRUE)
    /\ InboundIdle
    /\ SalesforceIdle({})
RelayNext ==
    \/ \E e \in SnsEvents : RelayHandler(e)
    \/ \E n \in Numbers \cup {NoNumber} : getOriginatingNumberOk(n)
    \/ getOriginatingNumberFail
    \/ makeApiRequestOk
    \/ makeApiRequestFail
RelaySpec == RelayInit /\ [][RelayNext]_vars

----------------------------------------------------------------------------
\* Claims on the outbound SMS relay.

RelayEnded == relayAt = "done"
\* The event of the invocation is a message of the agent.
AgentMessage ==
    snsEvent.kind = "json" /\ snsEvent.Type = "MESSAGE" /\ snsEvent.ParticipantRole = "AGENT"

\* C31 (as stated): an invocation that ended has issued an SMS request if
\* and only if its event has Type 'MESSAGE' and ParticipantRole 'AGENT'.
C31_Original == RelayEnded => (smsRequests # <<>> <=> AgentMessage)

\* C31: an invocation issues at most one SMS request, only for an event of
\* Type 'MESSAGE' and ParticipantRole 'AGENT', with the content of the event
\* and the number the lookup returned (null when it found no item); for such
\* an event it issues the request unless the lookup threw, and then it
\* returns 500.  Every other streamed event ends without a request and
\* without a value; an event that cannot be read ends with 500.
C31_RelayInv ==
    /\ Len(smsRequests) <= 1
    /\ smsRequests # <<>> =>
        /\ AgentMessage /\ RelayEnded
        /\ smsRequests[1].body = postData(customerNumber, snsEvent.Content)
        /\ customerNumber # Undefined
        /\ relayed = ReturnsNothing
    /\ relayAt \in {"getOriginatingNumber", "makeApiRequest"} => AgentMessage
    /\ RelayEnded =>
        /\ ~AgentMessage => smsRequests = <<>>
        /\ (snsEvent.kind = "json" /\ ~AgentMessage) => relayed = ReturnsNothing
        /\ snsEvent.kind # "json" => relayed = ErrorProcessingMessage
        /\ AgentMessage => (smsRequests = <<>> <=> relayed = ErrorProcessingMessage)
        /\ (AgentMessage /\ smsRequests = <<>>) => customerNumber = Undefined
\* The provider gets a message only by a request that it accepted.
C31_RelayStep ==
    delivered' # delivered =>
        /\ AgentMessage
        /\ smsRequests = <<>> /\ Len(smsRequests') = 1 /\ smsRequests'[1].ok
        /\ delivered' = Append(delivered, smsRequests'[1].body)
C31_RelaysAgentMessages == []C31_RelayInv /\ [][C31_RelayStep]_vars
\* C31 (witness): after an agent's message was delivered, a customer's
\* message has ended without a request.
C31_Witness ==
    /\ RelayEnded
    /\ Len(delivered) = 1
    /\ snsEvent.kind = "json" /\ snsEvent.Type = "MESSAGE" /\ snsEvent.ParticipantRole = "CUSTOMER"
    /\ smsRequests = <<>>
    /\ relayed = ReturnsNothing

====
